---------------------------- MODULE Spec2Model ----------------------------
(***************************************************************************)
(* A model of the documentation indexing and retrieval engine:             *)
(*   - EmbeddingsService.chunkMarkdownContent (build/embeddings.js),       *)
(*   - VectorStore (build/vector-store.js: the SQLite tables, addDocument, *)
(*     searchSimilar, getDocumentsByRepo, deleteRepo, getRepoStats),       *)
(*   - autoIndexRepositories (src/index.ts) over GitHubClient.             *)
(*                                                                         *)
(* Three specifications share the variables:                              *)
(*   SpecChunk  walks the markdown-it token stream of one input document,  *)
(*   SpecStore  lets a caller issue any sequence of store operations,      *)
(*   SpecIndex  runs auto-index passes against a changing repository host. *)
(***************************************************************************)
EXTENDS Integers, Sequences, FiniteSets, TLC

(***************************************************************************)
(* Strings.  A JavaScript string is modelled run-length encoded: a         *)
(* sequence of runs [c |-> character, n |-> count], adjacent runs holding  *)
(* different characters.  Lengths of 1500 and more stay cheap that way.    *)
(***************************************************************************)
Run(ch, k) == [c |-> ch, n |-> k]

EmptyStr == << >>

RECURSIVE StrLen(_)
StrLen(s) == IF s = << >> THEN 0 ELSE Head(s).n + StrLen(Tail(s))

\* s + t
Cat(s, t) ==
    IF s = << >> THEN t
    ELSE IF t = << >> THEN s
    ELSE IF s[Len(s)].c = t[1].c
         THEN SubSeq(s, 1, Len(s) - 1) \o <<Run(t[1].c, s[Len(s)].n + t[1].n)>> \o Tail(t)
         ELSE s \o t

\* The string of k copies of ch ("" when k = 0).
Rep(ch, k) == IF k = 0 THEN EmptyStr ELSE <<Run(ch, k)>>

RECURSIVE Lit(_)
\* The string spelled by a tuple of characters.
Lit(chars) == IF chars = << >> THEN EmptyStr ELSE Cat(Rep(Head(chars), 1), Lit(Tail(chars)))

WhiteSpace == {" ", "\n"}

\* The character of a code fence.
BackTick == "BACKTICK"

RECURSIVE TrimStart(_)
TrimStart(s) ==
    IF s = << >> THEN s
    ELSE IF Head(s).c \in WhiteSpace THEN TrimStart(Tail(s)) ELSE s

RECURSIVE TrimEnd(_)
TrimEnd(s) ==
    IF s = << >> THEN s
    ELSE IF s[Len(s)].c \in WhiteSpace THEN TrimEnd(SubSeq(s, 1, Len(s) - 1)) ELSE s

\* String.prototype.trim
Trim(s) == TrimEnd(TrimStart(s))

RECURSIVE Substring0(_, _)
\* s.substring(0, k)
Substring0(s, k) ==
    IF s = << >> \/ k <= 0 THEN EmptyStr
    ELSE IF Head(s).n >= k THEN <<Run(Head(s).c, k)>>
    ELSE <<Head(s)>> \o Substring0(Tail(s), k - Head(s).n)

\* The value of an absent property (section: currentSection || undefined).
Undefined == <<Run("undefined", 0)>>

(***************************************************************************)
(* The input documents.  A document is a sequence of block elements; its   *)
(* raw text is what the caller passes as `content`, its token stream is    *)
(* what markdown-it's parse returns for it.                                *)
(***************************************************************************)
\* Bounds of the chunker's inputs: lengths of an element's text and the
\* number of block elements of a document.
ShortLen == 20
MidLen == 800
LongLen == 1600
MaxElems == 2

\* `currentContent.length + contentToAdd.length > 1500`
MaxChunkSize == 1500

TextLens == {ShortLen, MidLen, LongLen}

ElemKinds == {"h1", "h2", "para", "item", "quote", "code", "fence"}

Elems == [kind : ElemKinds, len : TextLens]

RECURSIVE SeqsUpTo(_, _)
SeqsUpTo(S, k) ==
    IF k = 0 THEN {<< >>}
    ELSE LET shorter == SeqsUpTo(S, k - 1)
         IN  shorter \cup {Append(q, e) : q \in {x \in shorter : Len(x) = k - 1}, e \in S}

\* Raw inputs that hold no block element at all: "", "\n", "  \n".
BlankRaws == {EmptyStr, Rep("\n", 1), Cat(Rep(" ", 2), Rep("\n", 1))}

\* The paths getDocumentationFiles passes on: names that end in ".md" in
\* any case (file.name.toLowerCase().endsWith(".md")).
FilePaths ==
    {Lit(<<"d", "/", "a", "-", "b", ".", "m", "d">>), Lit(<<"R", ".", "m", "d">>),
     Lit(<<"d", "/", "G", ".", "M", "D">>)}

\* The text of an element: len copies of a letter that tells headings from bodies.
ElemText(e) == Rep(IF e.kind \in {"h1", "h2"} THEN "T" ELSE "x", e.len)

\* The element as it is written in the raw markdown.
ElemRaw(e) ==
    CASE e.kind = "h1"    -> Cat(Lit(<<"#", " ">>), Cat(ElemText(e), Rep("\n", 2)))
      [] e.kind = "h2"    -> Cat(Lit(<<"#", "#", " ">>), Cat(ElemText(e), Rep("\n", 2)))
      [] e.kind = "para"  -> Cat(ElemText(e), Rep("\n", 2))
      [] e.kind = "item"  -> Cat(Lit(<<"-", " ">>), Cat(ElemText(e), Rep("\n", 2)))
      [] e.kind = "quote" -> Cat(Lit(<<">", " ">>), Cat(ElemText(e), Rep("\n", 2)))
      [] e.kind = "code"  -> Cat(Rep(" ", 4), Cat(ElemText(e), Rep("\n", 2)))
      [] e.kind = "fence" -> Cat(Rep(BackTick, 3), Cat(Rep("\n", 1), Cat(ElemText(e),
                                 Cat(Rep("\n", 1), Cat(Rep(BackTick, 3), Rep("\n", 2))))))

RECURSIVE RawOf(_)
RawOf(elems) == IF elems = << >> THEN EmptyStr ELSE Cat(ElemRaw(Head(elems)), RawOf(Tail(elems)))

\* A markdown-it token: its type split into block name and _open/_close suffix.
Tok(nm, sfx, tg, txt) == [name |-> nm, suffix |-> sfx, tag |-> tg, content |-> txt]

Inline(txt) == Tok("inline", "", "", txt)

Paragraph(txt) ==
    <<Tok("paragraph", "_open", "p", EmptyStr), Inline(txt), Tok("paragraph", "_close", "p", EmptyStr)>>

\* The tokens markdown-it emits for one block element.
ElemTokens(e) ==
    CASE e.kind \in {"h1", "h2"} ->
            <<Tok("heading", "_open", e.kind, EmptyStr), Inline(ElemText(e)),
              Tok("heading", "_close", e.kind, EmptyStr)>>
      [] e.kind = "para"  -> Paragraph(ElemText(e))
      [] e.kind = "item"  ->
            <<Tok("bullet_list", "_open", "ul", EmptyStr), Tok("list_item", "_open", "li", EmptyStr)>>
            \o Paragraph(ElemText(e)) \o
            <<Tok("list_item", "_close", "li", EmptyStr), Tok("bullet_list", "_close", "ul", EmptyStr)>>
      [] e.kind = "quote" ->
            <<Tok("blockquote", "_open", "blockquote", EmptyStr)>>
            \o Paragraph(ElemText(e)) \o
            <<Tok("blockquote", "_close", "blockquote", EmptyStr)>>
      [] e.kind = "code"  -> <<Tok("code_block", "", "code", Cat(ElemText(e), Rep("\n", 1)))>>
      [] e.kind = "fence" -> <<Tok("fence", "", "code", Cat(ElemText(e), Rep("\n", 1)))>>

RECURSIVE Parse(_)
\* this.markdown.parse(content, {}) for the document made of elems.
Parse(elems) == IF elems = << >> THEN << >> ELSE ElemTokens(Head(elems)) \o Parse(Tail(elems))

\* An input of chunkMarkdownContent: the raw content with its token stream.
Input(rawText, toks) == [raw |-> rawText, toks |-> toks]

Inputs ==
    {Input(RawOf(es), Parse(es)) : es \in SeqsUpTo(Elems, MaxElems) \ {<< >>}}
    \cup {Input(r, << >>) : r \in BlankRaws}

(***************************************************************************)
(* EmbeddingsService.chunkMarkdownContent                                  *)
(***************************************************************************)
RECURSIVE AfterLastSlash(_)
\* filePath.split('/').pop()
AfterLastSlash(p) ==
    IF \E k \in 1..Len(p) : p[k].c = "/"
    THEN AfterLastSlash(Tail(p))
    ELSE p

\* fileName.replace(/\.md$/, '')
StripMd(s) ==
    LET k == Len(s)
    IN  IF k >= 3 /\ s[k] = Run("d", 1) /\ s[k - 1] = Run("m", 1) /\ s[k - 2].c = "."
        THEN IF s[k - 2].n = 1 THEN SubSeq(s, 1, k - 3)
             ELSE SubSeq(s, 1, k - 3) \o <<Run(".", s[k - 2].n - 1)>>
        ELSE s

RECURSIVE DashesToSpaces(_)
\* .replace(/[-_]/g, ' ')
DashesToSpaces(s) ==
    IF s = << >> THEN EmptyStr
    ELSE Cat(<<Run(IF Head(s).c \in {"-", "_"} THEN " " ELSE Head(s).c, Head(s).n)>>,
             DashesToSpaces(Tail(s)))

extractTitleFromPath(filePath) == DashesToSpaces(StripMd(AfterLastSlash(filePath)))

\* The chunk pushed from the accumulator.
ChunkOf(cur) ==
    [content |-> Trim(cur.currentContent),
     title   |-> cur.currentTitle,
     section |-> IF cur.currentSection = EmptyStr THEN Undefined ELSE cur.currentSection]

\* The accumulator before the first token.
ChunkerStart(filePath) ==
    [chunks         |-> << >>,
     currentSection |-> EmptyStr,
     currentContent |-> EmptyStr,
     currentTitle   |-> extractTitleFromPath(filePath)]

\* token.type === 'heading_open'
HeadingStep(cur, toks, k) ==
    LET flushed == IF Trim(cur.currentContent) # EmptyStr
                   THEN [cur EXCEPT !.chunks = Append(@, ChunkOf(cur)), !.currentContent = EmptyStr]
                   ELSE cur
        hasText == k + 1 <= Len(toks) /\ toks[k + 1].name = "inline"
        heading == toks[k + 1].content
        line    == Cat(Lit(<<"#", " ">>), Cat(heading, Rep("\n", 2)))
    IN  IF ~hasText THEN flushed
        ELSE IF toks[k].tag = "h1"
             THEN [flushed EXCEPT !.currentTitle = heading, !.currentSection = EmptyStr,
                                  !.currentContent = Cat(@, line)]
             ELSE [flushed EXCEPT !.currentSection = heading,
                                  !.currentContent = Cat(@, line)]

RECURSIVE CollectInline(_, _)
\* while (j < tokens.length && !tokens[j].type.endsWith('_close')) ...
CollectInline(toks, j) ==
    IF j > Len(toks) \/ toks[j].suffix = "_close" THEN EmptyStr
    ELSE Cat(IF toks[j].name = "inline" THEN Cat(toks[j].content, Rep(" ", 1)) ELSE EmptyStr,
             CollectInline(toks, j + 1))

contentToAdd(toks, k) ==
    IF toks[k].name = "code_block"
    THEN Cat(Rep(BackTick, 3), Cat(Rep("\n", 1), Cat(toks[k].content,
             Cat(Rep("\n", 1), Cat(Rep(BackTick, 3), Rep("\n", 2))))))
    ELSE Cat(CollectInline(toks, k + 1), Rep("\n", 2))

\* currentContent.length + contentToAdd.length > 1500
TooLarge(cur, add) == StrLen(cur) + StrLen(add) > MaxChunkSize

\* paragraph_open, list_item_open, blockquote_open, code_block
ContentStep(cur, toks, k) ==
    LET add == contentToAdd(toks, k)
    IN  IF TooLarge(cur.currentContent, add)
        THEN [(IF Trim(cur.currentContent) # EmptyStr
               THEN [cur EXCEPT !.chunks = Append(@, ChunkOf(cur))]
               ELSE cur)
              EXCEPT !.currentContent = add]
        ELSE [cur EXCEPT !.currentContent = Cat(@, add)]

IsHeadingOpen(t) == t.name = "heading" /\ t.suffix = "_open"

IsContentOpen(t) ==
    \/ t.name \in {"paragraph", "list_item", "blockquote"} /\ t.suffix = "_open"
    \/ t.name = "code_block"

\* "Add the final chunk"
FinalFlush(cur) ==
    IF Trim(cur.currentContent) # EmptyStr
    THEN [cur EXCEPT !.chunks = Append(@, ChunkOf(cur))]
    ELSE cur

\* content.substring(0, 1500)
FallbackContent(rawText) == Substring0(rawText, MaxChunkSize)

\* "If no chunks were created ..., create one chunk with all content"
Fallback(cur, rawText) ==
    IF Len(cur.chunks) = 0
    THEN [cur EXCEPT !.chunks = <<[content |-> FallbackContent(rawText),
                                   title   |-> cur.currentTitle,
                                   section |-> Undefined]>>]
    ELSE cur

\* One iteration of the loop over the tokens.
TokenStep(cur, toks, k) ==
    IF IsHeadingOpen(toks[k]) THEN HeadingStep(cur, toks, k)
    ELSE IF IsContentOpen(toks[k]) THEN ContentStep(cur, toks, k)
    ELSE cur

RECURSIVE WalkFrom(_, _, _)
\* The loop from token k on: the accumulator after one iteration is the one
\* the next iteration starts from.
WalkFrom(cur, toks, k) ==
    IF k > Len(toks) THEN cur
    ELSE CHOOSE end \in {WalkFrom(next, toks, k + 1) : next \in {TokenStep(cur, toks, k)}} : TRUE

\* The chunks chunkMarkdownContent returns.
chunkMarkdownContent(in, filePath) ==
    CHOOSE chunks \in {Fallback(FinalFlush(end), in.raw).chunks :
                          end \in {WalkFrom(start, in.toks, 1) : start \in {ChunkerStart(filePath)}}} : TRUE


(***************************************************************************)
(* Timestamps.  last_updated is an ISO-8601 string: the host's commit and  *)
(* repository dates carry no fractional second ("...:05Z"), the fallback   *)
(* new Date().toISOString() carries milliseconds ("...:05.500Z").  SQLite  *)
(* orders the TEXT column byte by byte, new Date(...) orders by instant.   *)
(***************************************************************************)
\* ms = NoMillis: a timestamp written without fractional second.
NoMillis == 0 - 1

Stamp(s, m) == [sec |-> s, ms |-> m]

\* new Date(ts).getTime()
DateValue(ts) == ts.sec * 1000 + (IF ts.ms = NoMillis THEN 0 ELSE ts.ms)

\* a < b as SQLite compares TEXT (BINARY collation): at the first differing
\* character "." sorts before "Z".
TextLess(a, b) ==
    \/ a.sec < b.sec
    \/ /\ a.sec = b.sec
       /\ \/ a.ms # NoMillis /\ b.ms = NoMillis
          \/ a.ms # NoMillis /\ b.ms # NoMillis /\ a.ms < b.ms

(***************************************************************************)
(* VectorStore: the two tables.                                            *)
(*   documents  rows [id, repo, file_path, content, metadata,              *)
(*              last_updated, commit_hash], UNIQUE(repo,file_path,content),*)
(*              id INTEGER PRIMARY KEY AUTOINCREMENT;                      *)
(*   embeddings rows [document_id, embedding], document_id REFERENCES      *)
(*              documents(id) ON DELETE CASCADE.                           *)
(* better-sqlite3 opens the database with foreign keys enforced, so the    *)
(* cascade is in effect.  Every statement runs in its own transaction.     *)
(***************************************************************************)
\* JSON.stringify(doc.metadata): keys whose value is undefined are left out.
JSONStringify(m) ==
    SelectSeq(<<[k |-> "title", v |-> m.title], [k |-> "section", v |-> m.section]>>,
              LAMBDA kv : kv.v # Undefined)
    \o <<[k |-> "lastUpdated", v |-> m.lastUpdated], [k |-> "commitHash", v |-> m.commitHash]>>

JSONGet(json, key, missing) ==
    IF \E n \in 1..Len(json) : json[n].k = key
    THEN json[CHOOSE n \in 1..Len(json) : json[n].k = key].v
    ELSE missing

\* JSON.parse(rowData.metadata), read through the DocumentChunk interface.
JSONParse(json) ==
    [title       |-> JSONGet(json, "title", Undefined),
     section     |-> JSONGet(json, "section", Undefined),
     lastUpdated |-> JSONGet(json, "lastUpdated", Undefined),
     commitHash  |-> JSONGet(json, "commitHash", Undefined)]

\* new Float32Array(doc.embedding): every component rounded to single
\* precision; an integer of magnitude up to 2^24 is kept exactly, a larger
\* one is rounded to a multiple of 2 (the model stays below 2^25).
Float32(x) ==
    LET a == IF x < 0 THEN 0 - x ELSE x
        r == IF a <= 16777216 \/ a % 2 = 0 THEN a
             ELSE IF ((a - 1) \div 2) % 2 = 0 THEN a - 1 ELSE a + 1
    IN  IF x < 0 THEN 0 - r ELSE r

\* Buffer.from(new Float32Array(embedding).buffer)
ToBlob(embedding) == [n \in 1..Len(embedding) |-> Float32(embedding[n])]

\* Array.from(new Float32Array(row.embedding.buffer))
FromBlob(blob) == blob

TripleOf(r) == <<r.repo, r.file_path, r.content>>

DocTriple(doc) == <<doc.repo, doc.filePath, doc.content>>

\* The database: db.documents, db.embeddings, and db.seq, the largest id
\* AUTOINCREMENT has handed out (sqlite_sequence).
EmptyDb == [documents |-> {}, embeddings |-> {}, seq |-> 0]

\* Deleting document rows without the cascade.
DeleteDocsKeepEmbeddings(db, gone) == [db EXCEPT !.documents = @ \ gone]

\* Deleting document rows takes their embedding rows along (ON DELETE CASCADE).
DeleteDocs(db, gone) ==
    [db EXCEPT !.documents = @ \ gone,
               !.embeddings = {e \in @ : e.document_id \notin {r.id : r \in gone}}]

NewDocRow(db, doc) ==
    [id           |-> db.seq + 1,
     repo         |-> doc.repo,
     file_path    |-> doc.filePath,
     content      |-> doc.content,
     metadata     |-> JSONStringify(doc.metadata),
     last_updated |-> doc.metadata.lastUpdated,
     commit_hash  |-> doc.metadata.commitHash]

\* INSERT INTO documents without the conflict clause and the UNIQUE constraint.
InsertDuplicate(db, doc) ==
    [db EXCEPT !.documents = @ \cup {NewDocRow(db, doc)}, !.seq = @ + 1]

\* INSERT OR REPLACE INTO documents (...): a row with the same
\* (repo, file_path, content) is deleted, then the new row is inserted under
\* a fresh AUTOINCREMENT id.
InsertOrReplaceDocument(db, doc) ==
    LET conflict == {r \in db.documents : TripleOf(r) = DocTriple(doc)}
        cleared  == DeleteDocs(db, conflict)
    IN  [cleared EXCEPT !.documents = @ \cup {NewDocRow(db, doc)}, !.seq = @ + 1]

\* result.lastInsertRowid
LastInsertRowid(db) == db.seq

\* INSERT OR REPLACE INTO embeddings (document_id, embedding): always a new
\* row, since no constraint can conflict.  The row's own id (the next free
\* rowid) is read nowhere and is left out of the model.
InsertEmbedding(db, documentId, embedding) ==
    [db EXCEPT !.embeddings =
        @ \cup {[document_id |-> documentId, embedding |-> ToBlob(embedding)]}]

\* A deletion that removes nothing.
deleteRepoKept(db, repo) == db

\* DELETE FROM documents WHERE repo = ?
deleteRepo(db, repo) == DeleteDocs(db, {r \in db.documents : r.repo = repo})

\* FROM documents d JOIN embeddings e ON d.id = e.document_id
JoinRows(db) ==
    {j \in {[d |-> r, e |-> x] : r \in db.documents, x \in db.embeddings} : j.d.id = j.e.document_id}

\* The DocumentChunk built from one joined row.
RowToChunk(j) ==
    [id        |-> j.d.id,
     repo      |-> j.d.repo,
     filePath  |-> j.d.file_path,
     content   |-> j.d.content,
     embedding |-> FromBlob(j.e.embedding),
     metadata  |-> JSONParse(j.d.metadata)]

(***************************************************************************)
(* Similarity.  A similarity is kept exactly, as num / sqrt(den), or is    *)
(* NaN; the model's vectors have integer components.                       *)
(***************************************************************************)
NaN == [nan |-> TRUE, num |-> 0, den |-> 1]

Sim(p, q) == [nan |-> FALSE, num |-> p, den |-> q]

RECURSIVE SumSquares(_)
SumSquares(v) == IF v = << >> THEN 0 ELSE Head(v) * Head(v) + SumSquares(Tail(v))

RECURSIVE DotUpTo(_, _, _)
DotUpTo(a, b, n) == IF n = 0 THEN 0 ELSE DotUpTo(a, b, n - 1) + a[n] * b[n]

\* cosineSimilarity without its zero-magnitude return: 0 / 0 is NaN.
cosineSimilarityUnguarded(a, b) ==
    IF Len(b) < Len(a) \/ SumSquares(a) * SumSquares(b) = 0 THEN NaN
    ELSE Sim(DotUpTo(a, b, Len(a)), SumSquares(a) * SumSquares(b))

\* cosineSimilarity(a, b): the dot product runs over a's indices, b[i] is
\* undefined beyond b's length and makes the sum NaN; a zero magnitude
\* returns 0 before the division.
cosineSimilarity(a, b) ==
    LET magnitudeA2 == SumSquares(a)
        magnitudeB2 == SumSquares(b)
    IN  IF magnitudeA2 = 0 \/ magnitudeB2 = 0 THEN Sim(0, 1)
        ELSE IF Len(b) < Len(a) THEN NaN
        ELSE Sim(DotUpTo(a, b, Len(a)), magnitudeA2 * magnitudeB2)

SignedSquare(x) == IF x < 0 THEN 0 - (x * x) ELSE x * x

\* x > y for two similarities; false when either is NaN.
SimGreater(x, y) ==
    /\ ~x.nan /\ ~y.nan
    /\ SignedSquare(x.num) * y.den > SignedSquare(y.num) * x.den

SimIsOne(x) == ~x.nan /\ x.num > 0 /\ x.num * x.num = x.den

SimIsZero(x) == ~x.nan /\ x.num = 0

RECURSIVE Arrangements(_)
\* Every arrangement of the set S as a sequence.
Arrangements(S) ==
    IF S = {} THEN {<< >>}
    ELSE UNION {{<<x>> \o q : q \in Arrangements(S \ {x})} : x \in S}

RECURSIVE OrderedIds(_, _)
\* Every arrangement of ids that is descending in stampOf (as TEXT); ids of
\* equal stampOf come in any order.
OrderedIds(ids, stampOf) ==
    IF ids = {} THEN {<< >>}
    ELSE UNION {{<<x>> \o q : q \in OrderedIds(ids \ {x}, stampOf)} :
                x \in {y \in ids : \A o \in ids : ~TextLess(stampOf[y], stampOf[o])}}

\* ORDER BY d.last_updated DESC over joined rows (one per document id):
\* every order the clause allows.
OrderedByLastUpdated(rows) ==
    LET ids     == {j.d.id : j \in rows}
        rowOf   == [x \in ids |-> CHOOSE j \in rows : j.d.id = x]
        stampOf == [x \in ids |-> rowOf[x].d.last_updated]
    IN  {[n \in 1..Len(order) |-> rowOf[order[n]]] : order \in OrderedIds(ids, stampOf)}

Prefix(s, n) == SubSeq(s, 1, IF n < Len(s) THEN n ELSE Len(s))

RemoveAt(s, k) == SubSeq(s, 1, k - 1) \o SubSeq(s, k + 1, Len(s))

RECURSIVE StableSortDesc(_)
\* results.sort((a, b) => b.similarity - a.similarity) for results without
\* NaN: descending, equal similarities keep their order (the sort is stable).
StableSortDesc(s) ==
    IF s = << >> THEN << >>
    ELSE LET k == CHOOSE n \in 1..Len(s) :
                    /\ \A m \in 1..Len(s) : ~SimGreater(s[m].similarity, s[n].similarity)
                    /\ \A m \in 1..(n - 1) : SimGreater(s[m].similarity, s[n].similarity)
                                             \/ SimGreater(s[n].similarity, s[m].similarity)
         IN  <<s[k]>> \o StableSortDesc(RemoveAt(s, k))

\* The outcomes of the sort: with a NaN similarity the comparator is not
\* consistent and the resulting order is implementation-defined.
SortOutcomes(s) ==
    IF \E n \in 1..Len(s) : s[n].similarity.nan
    THEN {[n \in 1..Len(s) |-> s[p[n]]] : p \in Arrangements(1..Len(s))}
    ELSE {StableSortDesc(s)}

\* The optional repoFilter argument.
NoFilter == [given |-> FALSE, repos |-> << >>]

FilterOf(repos) == [given |-> TRUE, repos |-> repos]

InFilter(repo, repoFilter) == \E n \in 1..Len(repoFilter.repos) : repoFilter.repos[n] = repo

\* The candidates without the WHERE clause.
CandidatesUnfiltered(db, repoFilter) == JoinRows(db)

\* if (repoFilter && repoFilter.length > 0) sql += WHERE d.repo IN (...)
Candidates(db, repoFilter) ==
    IF repoFilter.given /\ Len(repoFilter.repos) > 0
    THEN {j \in JoinRows(db) : InFilter(j.d.repo, repoFilter)}
    ELSE JoinRows(db)

\* params.push(limit * 3)
SqlLimit(limit) == limit * 3

Scored(rows, queryEmbedding) ==
    [n \in 1..Len(rows) |->
        [document   |-> RowToChunk(rows[n]),
         similarity |-> cosineSimilarity(queryEmbedding, FromBlob(rows[n].e.embedding))]]

\* searchSimilar(queryEmbedding, limit, repoFilter): every result the call
\* can return in database state db.
searchSimilar(db, queryEmbedding, limit, repoFilter) ==
    UNION {{Prefix(sorted, limit) :
                sorted \in SortOutcomes(Scored(Prefix(rows, SqlLimit(limit)), queryEmbedding))} :
           rows \in OrderedByLastUpdated(Candidates(db, repoFilter))}

\* The listing with a WHERE clause that matches no row.
getDocumentsByRepoNone(db, repo) == {<< >>}

\* getDocumentsByRepo(repo): WHERE d.repo = ? ORDER BY d.last_updated DESC;
\* every list the call can return.
getDocumentsByRepo(db, repo) ==
    {[n \in 1..Len(rows) |-> RowToChunk(rows[n])] :
        rows \in OrderedByLastUpdated({j \in JoinRows(db) : j.d.repo = repo})}

\* The repository names in ascending order (ORDER BY repo).
RepoNames == <<"a/b", "c/d">>

Repos == {RepoNames[n] : n \in 1..Len(RepoNames)}

\* MAX(last_updated) over a TEXT column.
TextMax(stamps) == CHOOSE x \in stamps : \A y \in stamps : ~TextLess(x, y)

\* getRepoStats(): SELECT repo, COUNT(*), MAX(last_updated) FROM documents
\* GROUP BY repo ORDER BY repo.
getRepoStats(db) ==
    LET groups == SelectSeq(RepoNames, LAMBDA name : \E r \in db.documents : r.repo = name)
    IN  [n \in 1..Len(groups) |->
            LET rows == {r \in db.documents : r.repo = groups[n]}
            IN  [repo        |-> groups[n],
                 docCount    |-> Cardinality(rows),
                 lastUpdated |-> TextMax({r.last_updated : r \in rows})]]

(***************************************************************************)
(* Inputs of the store operations.                                         *)
(***************************************************************************)
\* Bounds: the number of rows ever inserted into documents, and the number
\* of addDocument calls that fail between their two statements.
MaxInserts == 4
MaxFailures == 1

ReadmePath == Lit(<<"R", ".", "m", "d">>)
GuidePath == Lit(<<"d", "/", "a", "-", "b", ".", "m", "d">>)

ContentX == Lit(<<"X">>)
ContentY == Lit(<<"Y">>)

\* A chunk of nothing but white space.
BlankContent == Lit(<<" ">>)

BlankTriple == <<"c/d", GuidePath, BlankContent>>

\* The (repo, filePath, content) keys the callers use.
Triples ==
    {<<"a/b", ReadmePath, ContentX>>, <<"a/b", ReadmePath, ContentY>>,
     <<"a/b", GuidePath, ContentX>>, <<"c/d", ReadmePath, ContentX>>,
     BlankTriple}

\* What a caller stores under a key: the embedding with the source's
\* timestamp.  An older document along the query axis <<1, 0>>, a newer one
\* across it, and a newer one of another dimensionality.
Versions ==
    {[embedding |-> <<1, 0>>, lastUpdated |-> Stamp(1, NoMillis)],
     [embedding |-> <<0, 1>>, lastUpdated |-> Stamp(2, NoMillis)],
     [embedding |-> <<1>>, lastUpdated |-> Stamp(2, NoMillis)]}

CommitOf(stamp) == IF stamp.sec = 1 THEN "sha1" ELSE "sha2"

DocumentChunk(triple, version) ==
    [repo      |-> triple[1],
     filePath  |-> triple[2],
     content   |-> triple[3],
     embedding |-> version.embedding,
     metadata  |-> [title       |-> extractTitleFromPath(triple[2]),
                    section     |-> Undefined,
                    lastUpdated |-> version.lastUpdated,
                    commitHash  |-> CommitOf(version.lastUpdated)]]

\* The blank chunk comes with the zero vector.
ZeroVersion == [embedding |-> <<0, 0>>, lastUpdated |-> Stamp(1, NoMillis)]

StoreDocs ==
    {DocumentChunk(t, v) : t \in Triples \ {BlankTriple}, v \in Versions}
        \cup {DocumentChunk(BlankTriple, ZeroVersion)}

Queries == {<<1, 0>>, <<0, 1>>, <<0, 0>>}

Limits == {1, 2}

Filters == {NoFilter, FilterOf(<< >>), FilterOf(<<"a/b">>)}

\* The searchSimilar calls the callers make, out of Queries, Limits and
\* Filters.
Searches ==
    {[queryEmbedding |-> <<1, 0>>, limit |-> 1, repoFilter |-> NoFilter],
     [queryEmbedding |-> <<1, 0>>, limit |-> 2, repoFilter |-> FilterOf(<<"a/b">>)],
     [queryEmbedding |-> <<0, 1>>, limit |-> 2, repoFilter |-> NoFilter],
     [queryEmbedding |-> <<0, 0>>, limit |-> 2, repoFilter |-> FilterOf(<< >>)]}

(***************************************************************************)
(* The repository host and the embedding provider, as autoIndexRepositories *)
(* sees them.                                                              *)
(***************************************************************************)
\* Bounds: the clock, the auto-index passes, the calls to the host or the
\* provider that fail, and the versions of a documentation file.
FirstNow == 3
MaxTime == 4
MaxPasses == 2
MaxCallFailures == 1
MaxVersion == 2

\* The milliseconds of a new Date().toISOString() taken within a second.
FallbackMillis == 500

\* The markdown of a documentation file, by path and version.
FileElems(filePath, version) ==
    IF filePath = ReadmePath
    THEN <<[kind |-> "h1", len |-> ShortLen],
           [kind |-> "para", len |-> IF version = 1 THEN ShortLen ELSE MidLen]>>
    ELSE <<[kind |-> "para", len |-> MidLen],
           [kind |-> "code", len |-> IF version = 1 THEN MidLen ELSE ShortLen]>>

FileContent(filePath, version) ==
    Input(RawOf(FileElems(filePath, version)), Parse(FileElems(filePath, version)))

HostFile(filePath, version, commitDate) ==
    [path |-> filePath, version |-> version, commitDate |-> commitDate]

\* The hosts a run starts from: a/b holds two documentation files, c/d one
\* (or no docs folder); a file's last commit is not later than the
\* repository's updated_at.
InitialHosts ==
    {[r \in Repos |->
        IF r = "a/b"
        THEN [updatedAt |-> Stamp(uc[1], NoMillis), hasDocs |-> TRUE,
              files |-> <<HostFile(ReadmePath, 1, Stamp(uc[2], NoMillis)),
                          HostFile(GuidePath, 1, Stamp(1, NoMillis))>>]
        ELSE [updatedAt |-> Stamp(1, NoMillis), hasDocs |-> d,
              files |-> <<HostFile(ReadmePath, 1, Stamp(1, NoMillis))>>]] :
     uc \in {p \in (1..2) \X (1..2) : p[2] <= p[1]}, d \in BOOLEAN}

\* generateEmbedding(text) when the provider answers: a vector of the
\* provider's one dimensionality, fixed by the text.
ProviderEmbedding(text) == IF StrLen(text) % 2 = 0 THEN <<1, 0>> ELSE <<0, 1>>

(***************************************************************************)
(* State                                                                   *)
(***************************************************************************)
VARIABLES
    req,        \* index_repo_docs: the request being served, or the last one
    input,      \* chunker: the document being chunked
    path,       \* chunker: its filePath
    i,          \* chunker: index of the next token (1-based)
    acc,        \* chunker: chunks, currentSection, currentContent, currentTitle
    cpc,        \* chunker: "loop", "fallback" or "done"
    db,         \* the SQLite database of the VectorStore
    call,       \* the addDocument call between its two statements, or Idle
    ret,        \* what the last completed store call returned or threw
    failures,   \* addDocument calls that failed midway so far
    latest,     \* history: per triple, the document of its last addDocument
                \* call if that call returned and no deleteRepo of its
                \* repository followed; empty otherwise
    host,       \* the repository host: per repository updatedAt and docs files
    now,        \* the clock, in seconds
    pass,       \* the running autoIndexRepositories call and where it stands
    hist,       \* history of the passes: their number, the failed calls, and
                \* per repository what the passes did to it
    timer,      \* the autoIndexRepositories call the interval timer started
    ask         \* the multi-query tool request being served, or the last one

chunkVars == <<input, path, i, acc, cpc>>

storeVars == <<db, call, ret, failures, latest>>

indexVars == <<host, now, pass, hist>>

toolVars == <<req>>

serverVars == <<timer, ask>>

vars ==
    <<input, path, i, acc, cpc, db, call, ret, failures, latest, host, now, pass, hist, req,
      timer, ask>>

Idle == [op |-> "idle"]

NoRet == [op |-> "none"]

NoPass == [pc |-> "idle"]

\* process.env.ALERT_THRESHOLD is not set.
Unset == << >>

\* No multi-query tool request yet.  A request keeps the handler's locals:
\* phase and q, the list of queries being worked through and the index of
\* the query awaited; all, the allResults array; unique, the list after
\* de-duplication, threshold and sort; hits, the lists whose first result
\* passed the threshold.  alertEnv is process.env.ALERT_THRESHOLD, n the
\* number of requests so far.
NoAsk ==
    [pc         |-> "idle",
     tool       |-> "none",
     changeType |-> "none",
     service    |-> FALSE,
     repoFilter |-> NoFilter,
     phase      |-> 1,
     q          |-> 1,
     all        |-> << >>,
     unique     |-> << >>,
     hits       |-> {},
     result     |-> "none",
     alertEnv   |-> Unset,
     n          |-> 0]

ChunkerIdle ==
    /\ input = Input(EmptyStr, << >>)
    /\ path = ReadmePath
    /\ i = 1
    /\ acc = ChunkerStart(ReadmePath)
    /\ cpc = "done"

StoreStart ==
    /\ db = EmptyDb
    /\ call = Idle
    /\ ret = NoRet
    /\ failures = 0
    /\ latest = [t \in Triples |-> {}]

NoHistory ==
    [passes      |-> 0,
     callsFailed |-> 0,
     complete    |-> {},
     interrupted |-> {}]

IndexerIdle ==
    /\ now = FirstNow
    /\ pass = NoPass
    /\ hist = NoHistory

HostIdle == host = CHOOSE h \in InitialHosts : TRUE

\* No index_repo_docs request yet.  Besides the handler's locals a request
\* keeps, as history: before, the database when the request arrived;
\* fetched, what getDocumentationFiles answered; writesFailed, the number of
\* store writes that threw; n, the number of requests so far.
NoRequest ==
    [pc             |-> "idle",
     repo           |-> "a/b",
     force          |-> FALSE,
     before         |-> EmptyDb,
     fetched        |-> "no",
     docFiles       |-> << >>,
     f              |-> 1,
     chunks         |-> << >>,
     c              |-> 1,
     totalChunks    |-> 0,
     processedFiles |-> 0,
     writesFailed   |-> 0,
     result         |-> "none",
     n              |-> 0]

ToolIdle == req = NoRequest

\* The interval timer has not fired and no multi-query tool has been called.
ServerIdle == timer = NoPass /\ ask = NoAsk

(***************************************************************************)
(* SpecChunk: chunkMarkdownContent, one token per step.                    *)
(***************************************************************************)
ChunkInit ==
    /\ input \in Inputs
    /\ path \in FilePaths
    /\ i = 1
    /\ acc = ChunkerStart(path)
    /\ cpc = "loop"
    /\ StoreStart
    /\ IndexerIdle /\ HostIdle /\ ToolIdle /\ ServerIdle

HeadingToken ==
    /\ cpc = "loop" /\ i <= Len(input.toks)
    /\ IsHeadingOpen(input.toks[i])
    /\ acc' = HeadingStep(acc, input.toks, i)
    /\ i' = i + 1
    /\ UNCHANGED <<input, path, cpc>>
    /\ UNCHANGED <<storeVars, indexVars, toolVars, serverVars>>

ContentToken ==
    /\ cpc = "loop" /\ i <= Len(input.toks)
    /\ IsContentOpen(input.toks[i])
    /\ acc' = ContentStep(acc, input.toks, i)
    /\ i' = i + 1
    /\ UNCHANGED <<input, path, cpc>>
    /\ UNCHANGED <<storeVars, indexVars, toolVars, serverVars>>

OtherToken ==
    /\ cpc = "loop" /\ i <= Len(input.toks)
    /\ ~IsHeadingOpen(input.toks[i]) /\ ~IsContentOpen(input.toks[i])
    /\ i' = i + 1
    /\ UNCHANGED <<input, path, acc, cpc>>
    /\ UNCHANGED <<storeVars, indexVars, toolVars, serverVars>>

EndOfTokens ==
    /\ cpc = "loop" /\ i > Len(input.toks)
    /\ acc' = FinalFlush(acc)
    /\ cpc' = "fallback"
    /\ UNCHANGED <<input, path, i>>
    /\ UNCHANGED <<storeVars, indexVars, toolVars, serverVars>>

ReturnChunks ==
    /\ cpc = "fallback"
    /\ acc' = Fallback(acc, input.raw)
    /\ cpc' = "done"
    /\ UNCHANGED <<input, path, i>>
    /\ UNCHANGED <<storeVars, indexVars, toolVars, serverVars>>

ChunkNext == HeadingToken \/ ContentToken \/ OtherToken \/ EndOfTokens \/ ReturnChunks

SpecChunk == ChunkInit /\ [][ChunkNext]_vars


(***************************************************************************)
(* SpecStore: a caller issues store operations in any order, each running  *)
(* to completion (better-sqlite3 is synchronous: nothing interleaves with  *)
(* the two statements of addDocument inside one process).  A search leaves *)
(* the store as it is, so a run of the model ends with the search it       *)
(* observes: what a longer run would reach is reached without that search. *)
(***************************************************************************)
StoreInit == ChunkerIdle /\ StoreStart /\ IndexerIdle /\ HostIdle /\ ToolIdle /\ ServerIdle

\* No call is running and no search result is under observation.  ret holds
\* what the last call returned; for addDocument also, as history, the
\* embeddings of the rows the call replaced, and for deleteRepo its argument
\* and the number of rows it removed.
CallerReady == call.op = "idle" /\ ret.op # "searchSimilar"

\* addDocument(doc) when both statements succeed.
addDocument(d, doc) ==
    LET inserted == InsertOrReplaceDocument(d, doc)
    IN  InsertEmbedding(inserted, LastInsertRowid(inserted), doc.embedding)

AddDocument(doc) ==
    /\ CallerReady
    /\ db.seq < MaxInserts
    /\ db' = addDocument(db, doc)
    /\ ret' = [op |-> "addDocument", value |-> LastInsertRowid(db'),
               replaced |-> {j.e.embedding : j \in {x \in JoinRows(db) : TripleOf(x.d) = DocTriple(doc)}}]
    /\ latest' = [latest EXCEPT ![DocTriple(doc)] = {doc}]
    /\ UNCHANGED <<call, failures>>
    /\ UNCHANGED <<chunkVars, toolVars, serverVars, indexVars>>

DeleteRepo(repo) ==
    /\ CallerReady
    /\ db' = deleteRepo(db, repo)
    /\ ret' = [op |-> "deleteRepo", repo |-> repo,
               removed |-> Cardinality({r \in db.documents : r.repo = repo})]
    /\ latest' = [t \in Triples |-> IF t[1] = repo THEN {} ELSE latest[t]]
    /\ UNCHANGED <<call, failures>>
    /\ UNCHANGED <<chunkVars, toolVars, serverVars, indexVars>>

SearchSimilar(queryEmbedding, limit, repoFilter) ==
    /\ CallerReady
    /\ \E results \in searchSimilar(db, queryEmbedding, limit, repoFilter) :
          ret' = [op |-> "searchSimilar", queryEmbedding |-> queryEmbedding, limit |-> limit,
                  repoFilter |-> repoFilter, value |-> results]
    /\ UNCHANGED <<db, call, failures, latest>>
    /\ UNCHANGED <<chunkVars, toolVars, serverVars, indexVars>>

StoreNext ==
    \/ \E doc \in StoreDocs : AddDocument(doc)
    \/ \E repo \in Repos : DeleteRepo(repo)
    \/ \E s \in Searches : SearchSimilar(s.queryEmbedding, s.limit, s.repoFilter)

SpecStore == StoreInit /\ [][StoreNext]_vars

(***************************************************************************)
(* SpecCrash: addDocument as the two statements it is, each in its own     *)
(* transaction.  The second may throw (the disk is full, the database is   *)
(* locked by another process) or the process may die before it; what the   *)
(* first statement wrote stays.                                            *)
(***************************************************************************)
\* addDocument, first statement: insertDoc.run(...)
AddDocumentInsertDoc(doc) ==
    /\ CallerReady
    /\ db.seq < MaxInserts
    /\ db' = InsertOrReplaceDocument(db, doc)
    /\ call' = [op |-> "addDocument", doc |-> doc, documentId |-> LastInsertRowid(db')]
    /\ latest' = [latest EXCEPT ![DocTriple(doc)] = {}]
    /\ UNCHANGED <<ret, failures>>
    /\ UNCHANGED <<chunkVars, toolVars, serverVars, indexVars>>

\* addDocument, second statement: insertEmbedding.run(...); return documentId
AddDocumentInsertEmbedding ==
    /\ call.op = "addDocument"
    /\ db' = InsertEmbedding(db, call.documentId, call.doc.embedding)
    /\ ret' = [op |-> "addDocument", value |-> call.documentId]
    /\ latest' = [latest EXCEPT ![DocTriple(call.doc)] = {call.doc}]
    /\ call' = Idle
    /\ UNCHANGED failures
    /\ UNCHANGED <<chunkVars, toolVars, serverVars, indexVars>>

\* addDocument ends between its two statements.
AddDocumentFails ==
    /\ call.op = "addDocument"
    /\ failures < MaxFailures
    /\ failures' = failures + 1
    /\ ret' = [op |-> "addDocument", value |-> 0, threw |-> TRUE]
    /\ call' = Idle
    /\ UNCHANGED <<db, latest>>
    /\ UNCHANGED <<chunkVars, toolVars, serverVars, indexVars>>

CrashNext ==
    \/ \E doc \in StoreDocs : AddDocumentInsertDoc(doc)
    \/ AddDocumentInsertEmbedding
    \/ AddDocumentFails
    \/ \E repo \in Repos : DeleteRepo(repo)

SpecCrash == StoreInit /\ [][CrashNext]_vars

(***************************************************************************)
(* GitHubClient, as far as autoIndexRepositories uses it.                  *)
(***************************************************************************)
\* getOrganizationRepos(org) when the listing succeeds (the order of the
\* list is that of RepoNames).
getOrganizationRepos(h) ==
    [n \in 1..Len(RepoNames) |->
        [fullName |-> RepoNames[n], updatedAt |-> h[RepoNames[n]].updatedAt]]

ShaOf(version) == IF version = 1 THEN "sha1" ELSE "sha2"

\* getFileLastModified: the committer date of the file's last commit, or
\* new Date().toISOString() when listCommits fails or returns nothing.
getFileLastModified(file, clock, commitsKnown) ==
    IF commitsKnown THEN file.commitDate ELSE Stamp(clock, FallbackMillis)

\* getDocumentationFiles(owner, repo) when it does not throw: [] when the
\* folder is missing (404); fallback is the set of files (by index) whose
\* commit listing failed.
getDocumentationFiles(h, repo, clock, fallback) ==
    IF ~h[repo].hasDocs THEN << >>
    ELSE [n \in 1..Len(h[repo].files) |->
            LET file == h[repo].files[n]
            IN  [path         |-> file.path,
                 content      |-> FileContent(file.path, file.version),
                 sha          |-> ShaOf(file.version),
                 lastModified |-> getFileLastModified(file, clock, n \notin fallback)]]

(***************************************************************************)
(* autoIndexRepositories                                                   *)
(***************************************************************************)
\* stats.find((s) => s.repo === `${owner}/${repoName}`): the entries found.
FindStats(stats, repo) == {stats[n] : n \in {m \in 1..Len(stats) : stats[m].repo = repo}}

\* The gate with > in place of >=.
IsUpToDateStrict(existingRepo, updatedAt) ==
    /\ existingRepo # {}
    /\ \E s \in existingRepo : DateValue(s.lastUpdated) > DateValue(updatedAt)

\* existingRepo && new Date(existingRepo.lastUpdated) >= new Date(repo.updatedAt)
IsUpToDate(existingRepo, updatedAt) ==
    /\ existingRepo # {}
    /\ \E s \in existingRepo : DateValue(s.lastUpdated) >= DateValue(updatedAt)

\* The DocumentChunk built for one text chunk of one file.
IndexedChunk(repo, file, chunk, embedding) ==
    [repo      |-> repo,
     filePath  |-> file.path,
     content   |-> chunk.content,
     embedding |-> embedding,
     metadata  |-> [title       |-> chunk.title,
                    section     |-> chunk.section,
                    lastUpdated |-> file.lastModified,
                    commitHash  |-> file.sha]]

CurrentRepo == pass.repos[pass.r]

\* `continue`, or the end of the loop body: on to the next repository.
NextRepo(p, gateDecision) == [p EXCEPT !.pc = "repo", !.r = @ + 1, !.gate = gateDecision]

\* A catch around the whole loop: the failure ends the pass.
CaughtOutsideLoop(p) == [p EXCEPT !.pc = "done", !.gate = "none", !.failed = TRUE]

\* The catch of the loop body: the error is logged and the loop goes on with
\* the next repository.
LoopCaught(p) == [NextRepo(p, "none") EXCEPT !.failed = TRUE]

Between == pass.pc \in {"idle", "done"}

\* The call starts and the repository listing arrives.
StartPass ==
    /\ Between
    /\ hist.passes < MaxPasses
    /\ pass' = [pc |-> "repo", repos |-> getOrganizationRepos(host), r |-> 1,
                files |-> << >>, f |-> 1, textChunks |-> << >>, c |-> 1,
                gate |-> "none", failed |-> FALSE]
    /\ hist' = [hist EXCEPT !.passes = @ + 1]
    /\ UNCHANGED <<host, now, chunkVars, toolVars, serverVars, storeVars>>

\* getOrganizationRepos throws: the outer catch ends the pass.
ListingFails ==
    /\ Between
    /\ hist.passes < MaxPasses
    /\ hist.callsFailed < MaxCallFailures
    /\ pass' = [pc |-> "done", repos |-> << >>, r |-> 1,
                files |-> << >>, f |-> 1, textChunks |-> << >>, c |-> 1,
                gate |-> "none", failed |-> TRUE]
    /\ hist' = [hist EXCEPT !.passes = @ + 1, !.callsFailed = @ + 1]
    /\ UNCHANGED <<host, now, chunkVars, toolVars, serverVars, storeVars>>

\* getDocumentationFiles returns; no file: "No documentation found, skipping".
FetchFiles ==
    /\ pass.pc = "repo" /\ pass.r <= Len(pass.repos)
    /\ \E fallback \in {{}} \cup {{n} : n \in 1..Len(host[CurrentRepo.fullName].files)} :
          /\ fallback # {} => host[CurrentRepo.fullName].hasDocs /\ hist.callsFailed < MaxCallFailures
          /\ LET files == getDocumentationFiles(host, CurrentRepo.fullName, now, fallback)
             IN  pass' = IF Len(files) = 0
                         THEN NextRepo(pass, "none")
                         ELSE [pass EXCEPT !.pc = "gate", !.files = files, !.gate = "none",
                                           !.failed = @ \/ fallback # {}]
          /\ hist' = [hist EXCEPT !.callsFailed = IF fallback = {} THEN @ ELSE @ + 1]
    /\ UNCHANGED <<host, now, chunkVars, toolVars, serverVars, storeVars>>

\* getDocumentationFiles throws (any error but 404): the catch of the loop
\* body logs it and the loop goes on.
FetchFails ==
    /\ pass.pc = "repo" /\ pass.r <= Len(pass.repos)
    /\ hist.callsFailed < MaxCallFailures
    /\ pass' = LoopCaught(pass)
    /\ hist' = [hist EXCEPT !.callsFailed = @ + 1]
    /\ UNCHANGED <<host, now, chunkVars, toolVars, serverVars, storeVars>>

\* "Check if already indexed and up-to-date"
Gate ==
    /\ pass.pc = "gate"
    /\ LET existingRepo == FindStats(getRepoStats(db), CurrentRepo.fullName)
       IN  pass' = IF IsUpToDate(existingRepo, CurrentRepo.updatedAt)
                   THEN NextRepo(pass, "skip")
                   ELSE [pass EXCEPT !.pc = "embed", !.f = 1, !.c = 1, !.gate = "reindex",
                            !.textChunks = chunkMarkdownContent(pass.files[1].content,
                                                                pass.files[1].path)]
    /\ UNCHANGED <<host, now, hist, chunkVars, toolVars, serverVars, storeVars>>

\* generateEmbedding answers for the current chunk: the chunk is stored and
\* the loops move on; after the last chunk of the last file the repository
\* is "Successfully indexed".
EmbeddingArrives ==
    /\ pass.pc = "embed"
    /\ LET file  == pass.files[pass.f]
           chunk == pass.textChunks[pass.c]
           doc   == IndexedChunk(CurrentRepo.fullName, file, chunk, ProviderEmbedding(chunk.content))
       IN  /\ db' = addDocument(db, doc)
           /\ ret' = [op |-> "addDocument", value |-> LastInsertRowid(db')]
    /\ IF pass.c < Len(pass.textChunks)
       THEN /\ pass' = [pass EXCEPT !.c = @ + 1, !.gate = "none"]
            /\ hist' = hist
       ELSE IF pass.f < Len(pass.files)
       THEN /\ pass' = [pass EXCEPT !.f = @ + 1, !.c = 1, !.gate = "none",
                            !.textChunks = chunkMarkdownContent(pass.files[pass.f + 1].content,
                                                                pass.files[pass.f + 1].path)]
            /\ hist' = hist
       ELSE /\ pass' = NextRepo(pass, "none")
            /\ hist' = [hist EXCEPT !.complete = @ \cup {CurrentRepo.fullName},
                                    !.interrupted = @ \ {CurrentRepo.fullName}]
    /\ UNCHANGED <<host, now, call, failures, latest, chunkVars, toolVars, serverVars>>

\* generateEmbedding throws: the catch of the loop body logs it, the rest of
\* the repository is left out and the loop goes on.
EmbeddingFails ==
    /\ pass.pc = "embed"
    /\ hist.callsFailed < MaxCallFailures
    /\ pass' = LoopCaught(pass)
    /\ hist' = [hist EXCEPT !.callsFailed = @ + 1,
                            !.interrupted = @ \cup {CurrentRepo.fullName}]
    /\ UNCHANGED <<host, now, chunkVars, toolVars, serverVars, storeVars>>

\* addDocument throws (the store is unavailable), before its first statement
\* or between the two: the catch of the loop body logs it and the loop goes
\* on.
StoreFails ==
    /\ pass.pc = "embed"
    /\ hist.callsFailed < MaxCallFailures
    /\ LET file  == pass.files[pass.f]
           chunk == pass.textChunks[pass.c]
           doc   == IndexedChunk(CurrentRepo.fullName, file, chunk, ProviderEmbedding(chunk.content))
       IN  db' \in {db, InsertOrReplaceDocument(db, doc)}
    /\ pass' = LoopCaught(pass)
    /\ hist' = [hist EXCEPT !.callsFailed = @ + 1,
                            !.interrupted = @ \cup {CurrentRepo.fullName}]
    /\ UNCHANGED <<host, now, call, ret, failures, latest, chunkVars, toolVars, serverVars>>

\* "Auto-indexing completed"
EndPass ==
    /\ pass.pc = "repo" /\ pass.r > Len(pass.repos)
    /\ pass' = [pass EXCEPT !.pc = "done", !.gate = "none"]
    /\ UNCHANGED <<host, now, hist, chunkVars, toolVars, serverVars, storeVars>>

(***************************************************************************)
(* The host changes between two passes.                                    *)
(***************************************************************************)
\* A commit changes documentation file k of the repository.
PushDoc(repo, k) ==
    /\ Between
    /\ host[repo].files[k].version < MaxVersion
    /\ host' = [host EXCEPT ![repo].files[k].version = @ + 1,
                            ![repo].files[k].commitDate = Stamp(now, NoMillis),
                            ![repo].updatedAt = Stamp(now, NoMillis)]
    /\ hist' = [hist EXCEPT !.complete = @ \ {repo}]
    /\ UNCHANGED <<now, pass, chunkVars, toolVars, serverVars, storeVars>>

\* The repository changes otherwise (a push elsewhere, its settings).
TouchRepo(repo) ==
    /\ Between
    /\ host[repo].updatedAt # Stamp(now, NoMillis)
    /\ host' = [host EXCEPT ![repo].updatedAt = Stamp(now, NoMillis)]
    /\ hist' = [hist EXCEPT !.complete = @ \ {repo}]
    /\ UNCHANGED <<now, pass, chunkVars, toolVars, serverVars, storeVars>>

Tick ==
    /\ Between
    /\ now < MaxTime
    /\ now' = now + 1
    /\ UNCHANGED <<host, pass, hist, chunkVars, toolVars, serverVars, storeVars>>

IndexInit == ChunkerIdle /\ StoreStart /\ IndexerIdle /\ ToolIdle /\ ServerIdle /\ host \in InitialHosts

IndexNext ==
    \/ StartPass
    \/ ListingFails
    \/ FetchFiles
    \/ FetchFails
    \/ Gate
    \/ EmbeddingArrives
    \/ EmbeddingFails
    \/ StoreFails
    \/ EndPass
    \/ \E repo \in Repos : \E k \in 1..Len(host[repo].files) : PushDoc(repo, k)
    \/ \E repo \in Repos : TouchRepo(repo)
    \/ Tick

SpecIndex == IndexInit /\ [][IndexNext]_vars

\* The passes alone, on a host that does not change.
PassNext ==
    \/ StartPass
    \/ ListingFails
    \/ FetchFiles
    \/ FetchFails
    \/ Gate
    \/ EmbeddingArrives
    \/ EmbeddingFails
    \/ StoreFails
    \/ EndPass

\* Every awaited call settles and its continuation runs: the steps of a
\* running pass are taken (the calls are free to fail instead, as far as
\* the failure actions allow).
SpecPassFair ==
    /\ IndexInit /\ [][PassNext]_vars
    /\ WF_vars(FetchFiles) /\ WF_vars(Gate) /\ WF_vars(EmbeddingArrives) /\ WF_vars(EndPass)

(***************************************************************************)
(* SpecTimer: main() starts the first autoIndexRepositories call without   *)
(* awaiting it, and setInterval calls autoIndexRepositories again when the *)
(* interval has elapsed, whatever the earlier call is doing.  `pass` is    *)
(* the earlier call and `timer` the one the interval timer started; both   *)
(* run on the one event loop, a step being the code between two awaits.    *)
(***************************************************************************)
TimerRepo == timer.repos[timer.r]

\* setInterval's callback: autoIndexRepositories is called and the
\* repository listing arrives.  Nothing in the callback asks whether an
\* earlier call is still running.
TimerFires ==
    /\ timer.pc = "idle"
    /\ timer' = [pc |-> "repo", repos |-> getOrganizationRepos(host), r |-> 1,
                 files |-> << >>, f |-> 1, textChunks |-> << >>, c |-> 1,
                 gate |-> "none", failed |-> FALSE]
    /\ UNCHANGED <<ask, chunkVars, toolVars, storeVars, indexVars>>

\* getDocumentationFiles returns to the timer's call.
TimerFetchFiles ==
    /\ timer.pc = "repo" /\ timer.r <= Len(timer.repos)
    /\ LET files == getDocumentationFiles(host, TimerRepo.fullName, now, {})
       IN  timer' = IF Len(files) = 0
                    THEN NextRepo(timer, "none")
                    ELSE [timer EXCEPT !.pc = "gate", !.files = files, !.gate = "none"]
    /\ UNCHANGED <<ask, chunkVars, toolVars, storeVars, indexVars>>

\* The freshness gate of the timer's call.
TimerGate ==
    /\ timer.pc = "gate"
    /\ LET existingRepo == FindStats(getRepoStats(db), TimerRepo.fullName)
       IN  timer' = IF IsUpToDate(existingRepo, TimerRepo.updatedAt)
                    THEN NextRepo(timer, "skip")
                    ELSE [timer EXCEPT !.pc = "embed", !.f = 1, !.c = 1, !.gate = "reindex",
                             !.textChunks = chunkMarkdownContent(timer.files[1].content,
                                                                 timer.files[1].path)]
    /\ UNCHANGED <<ask, chunkVars, toolVars, storeVars, indexVars>>

\* generateEmbedding answers the timer's call and the chunk is stored.
TimerEmbeddingArrives ==
    /\ timer.pc = "embed"
    /\ LET file  == timer.files[timer.f]
           chunk == timer.textChunks[timer.c]
           doc   == IndexedChunk(TimerRepo.fullName, file, chunk, ProviderEmbedding(chunk.content))
       IN  /\ db' = addDocument(db, doc)
           /\ ret' = [op |-> "addDocument", value |-> LastInsertRowid(db')]
    /\ timer' = IF timer.c < Len(timer.textChunks)
                THEN [timer EXCEPT !.c = @ + 1, !.gate = "none"]
                ELSE IF timer.f < Len(timer.files)
                THEN [timer EXCEPT !.f = @ + 1, !.c = 1, !.gate = "none",
                         !.textChunks = chunkMarkdownContent(timer.files[timer.f + 1].content,
                                                             timer.files[timer.f + 1].path)]
                ELSE NextRepo(timer, "none")
    /\ UNCHANGED <<ask, call, failures, latest, chunkVars, toolVars, indexVars>>

\* An awaited call of the timer's call throws: caught in the loop body.
TimerCallFails ==
    /\ \/ timer.pc = "repo" /\ timer.r <= Len(timer.repos)
       \/ timer.pc = "embed"
    /\ hist.callsFailed < MaxCallFailures
    /\ timer' = LoopCaught(timer)
    /\ hist' = [hist EXCEPT !.callsFailed = @ + 1]
    /\ UNCHANGED <<ask, host, now, pass, chunkVars, toolVars, storeVars>>

\* "Auto-indexing completed" in the timer's call.
TimerEndPass ==
    /\ timer.pc = "repo" /\ timer.r > Len(timer.repos)
    /\ timer' = [timer EXCEPT !.pc = "done", !.gate = "none"]
    /\ UNCHANGED <<ask, chunkVars, toolVars, storeVars, indexVars>>

TimerNext ==
    \/ StartPass
    \/ ListingFails
    \/ FetchFiles
    \/ FetchFails
    \/ Gate
    \/ EmbeddingArrives
    \/ EmbeddingFails
    \/ StoreFails
    \/ EndPass
    \/ TimerFires
    \/ TimerFetchFiles
    \/ TimerGate
    \/ TimerEmbeddingArrives
    \/ TimerCallFails
    \/ TimerEndPass

SpecTimer == IndexInit /\ [][TimerNext]_vars

(***************************************************************************)
(* SpecAdvise: the tools that run several searches and merge the results   *)
(* (find_dependencies, analyze_feature_impact, check_breaking_changes),    *)
(* one request at a time, each step up to its next await of the embedding  *)
(* provider.  Between two steps other callers of the store (an indexing    *)
(* pass, index_repo_docs) upsert chunks.                                   *)
(***************************************************************************)
\* Bounds: the requests of a run, the queries of one query list that are
\* run (the handlers' lists hold 3 to 7), and the rows the other callers
\* insert.
MaxAsks == 1
QueriesPerList == 2
MaxAdviseInserts == 3

\* The "0.7" of parseFloat(process.env.ALERT_THRESHOLD || "0.7"): the
\* digits after "0.".
DefaultAlertThreshold == <<7>>

\* The values ALERT_THRESHOLD is configured with: unset, "0.75".
AlertEnvs == {Unset, <<7, 5>>}

\* parseFloat of "0.d" or "0.dd", in hundredths.
parseFloat(digits) == digits[1] * 10 + (IF Len(digits) > 1 THEN digits[2] ELSE 0)

\* const ALERT_THRESHOLD = parseFloat(process.env.ALERT_THRESHOLD || "0.7")
ALERT_THRESHOLD(env) == parseFloat(IF env = Unset THEN DefaultAlertThreshold ELSE env)

\* result.similarity >= threshold, the threshold in hundredths (positive);
\* false for NaN.
AtLeastThreshold(x, hundredths) ==
    /\ ~x.nan
    /\ x.num >= 0
    /\ x.num * x.num * 10000 >= hundredths * hundredths * x.den

\* The embeddings the provider returns for the queries.
QueryEmbeddings == {<<1, 0>>, <<1, 1>>}

\* The chunks the other callers upsert.
AdviseDocs ==
    {DocumentChunk(<<"a/b", ReadmePath, ContentX>>,
                   [embedding |-> <<1, 0>>, lastUpdated |-> Stamp(1, NoMillis)]),
     DocumentChunk(<<"a/b", ReadmePath, ContentX>>,
                   [embedding |-> <<0, 1>>, lastUpdated |-> Stamp(2, NoMillis)]),
     DocumentChunk(<<"c/d", ReadmePath, ContentX>>,
                   [embedding |-> <<1, 0>>, lastUpdated |-> Stamp(1, NoMillis)])}

RECURSIVE UniqueById(_)
\* .filter((result, index, self) =>
\*     index === self.findIndex((r) => r.document.id === result.document.id))
UniqueById(s) ==
    IF s = << >> THEN << >>
    ELSE LET front == SubSeq(s, 1, Len(s) - 1)
             last  == s[Len(s)]
         IN  IF \E m \in 1..Len(front) : front[m].document.id = last.document.id
             THEN UniqueById(front)
             ELSE Append(UniqueById(front), last)

\* The lists of queries a handler works through, in its order: the
\* collected list first, then analyze_feature_impact's single checks.
PhaseOrder == <<"collect", "api", "similar", "test", "deploy">>

\* The conditions under which the handler runs a list.
Applies(r, phase) ==
    \/ phase = "collect"
    \/ /\ r.tool = "analyze_feature_impact"
       /\ \/ phase = "api" /\ r.changeType = "modify" /\ Len(r.unique) > 0
          \/ phase = "similar" /\ r.changeType = "add"
          \/ phase = "test"
          \/ phase = "deploy" /\ r.service

\* The limit the handler passes to searchSimilar.
LimitOf(r) ==
    IF r.tool = "analyze_feature_impact"
    THEN CASE PhaseOrder[r.phase] = "collect" -> 5
           [] PhaseOrder[r.phase] \in {"api", "similar"} -> 3
           [] OTHER -> 2
    ELSE 3

RECURSIVE FromPhase(_, _)
\* The handler goes on with the first list from the k-th on that applies
\* and awaits the embedding of its first query; after the last list it
\* compiles the response and returns.
FromPhase(r, k) ==
    IF k > Len(PhaseOrder) THEN [r EXCEPT !.pc = "returned", !.result = "ok"]
    ELSE IF Applies(r, PhaseOrder[k]) THEN [r EXCEPT !.pc = "await", !.phase = k, !.q = 1]
    ELSE FromPhase(r, k + 1)

\* The merged list: duplicates by document id removed, then (but for
\* find_dependencies) the results below the threshold removed, then sorted
\* by similarity; find_dependencies keeps the first 10.
Merged(r) ==
    IF r.tool = "find_dependencies"
    THEN {Prefix(sorted, 10) : sorted \in SortOutcomes(UniqueById(r.all))}
    ELSE SortOutcomes(SelectSeq(UniqueById(r.all),
             LAMBDA result : AtLeastThreshold(result.similarity, ALERT_THRESHOLD(r.alertEnv))))

\* A request arrives; the handler builds its queries and awaits the
\* embedding of the first one.
AskCall(tool, changeType, service, repoFilter) ==
    /\ ask.pc \in {"idle", "returned"}
    /\ ask.n < MaxAsks
    /\ ask' = [NoAsk EXCEPT !.pc = "await", !.tool = tool, !.changeType = changeType,
                            !.service = service, !.repoFilter = repoFilter,
                            !.alertEnv = ask.alertEnv, !.n = ask.n + 1]
    /\ UNCHANGED <<timer, chunkVars, storeVars, indexVars, toolVars>>

\* createQueryEmbedding answers and searchSimilar runs.  In the collected
\* list the results are pushed to allResults, and after its last query the
\* list is merged; in a single check a first result at or above the
\* threshold is a hit and ends the list.
AskQuery ==
    /\ ask.pc = "await"
    /\ \E queryEmbedding \in QueryEmbeddings :
       \E results \in searchSimilar(db, queryEmbedding, LimitOf(ask), ask.repoFilter) :
          IF PhaseOrder[ask.phase] = "collect"
          THEN LET pushed == [ask EXCEPT !.all = @ \o results]
               IN  IF ask.q < QueriesPerList
                   THEN ask' = [pushed EXCEPT !.q = @ + 1]
                   ELSE \E unique \in Merged(pushed) :
                           ask' = FromPhase([pushed EXCEPT !.unique = unique], ask.phase + 1)
          ELSE IF Len(results) > 0
                  /\ AtLeastThreshold(results[1].similarity, ALERT_THRESHOLD(ask.alertEnv))
               THEN ask' = FromPhase([ask EXCEPT !.hits = @ \cup {PhaseOrder[ask.phase]}],
                                     ask.phase + 1)
               ELSE IF ask.q < QueriesPerList
               THEN ask' = [ask EXCEPT !.q = @ + 1]
               ELSE ask' = FromPhase(ask, ask.phase + 1)
    /\ UNCHANGED <<timer, chunkVars, storeVars, indexVars, toolVars>>

\* createQueryEmbedding throws: the handler's catch returns the error text.
AskFails ==
    /\ ask.pc = "await"
    /\ hist.callsFailed < MaxCallFailures
    /\ ask' = [ask EXCEPT !.pc = "returned", !.result = "error"]
    /\ hist' = [hist EXCEPT !.callsFailed = @ + 1]
    /\ UNCHANGED <<timer, host, now, pass, chunkVars, storeVars, toolVars>>

\* Another caller upserts a chunk.
AdviseWrite(doc) ==
    /\ db.seq < MaxAdviseInserts
    /\ AddDocument(doc)

AdviseInit ==
    /\ ChunkerIdle /\ StoreStart /\ IndexerIdle /\ HostIdle /\ ToolIdle
    /\ timer = NoPass
    /\ ask \in {[NoAsk EXCEPT !.alertEnv = env] : env \in AlertEnvs}

AdviseNext ==
    \/ \E repoFilter \in {NoFilter, FilterOf(<<"a/b">>)} :
          AskCall("find_dependencies", "none", FALSE, repoFilter)
    \/ \E changeType \in {"add", "modify", "remove", "deprecate"}, service \in BOOLEAN :
          AskCall("analyze_feature_impact", changeType, service, NoFilter)
    \/ AskCall("check_breaking_changes", "none", FALSE, NoFilter)
    \/ AskQuery
    \/ AskFails
    \/ \E doc \in AdviseDocs : AdviseWrite(doc)

SpecAdvise == AdviseInit /\ [][AdviseNext]_vars

(***************************************************************************)
(* SpecTool: the index_repo_docs tool, one request at a time, each step up *)
(* to its next await.  Between two requests the docs folder of a           *)
(* repository may be removed on the host.                                  *)
(***************************************************************************)
\* Bounds: the number of requests in a run, and of the calls to the host,
\* the provider or the store that fail in it.
MaxRequests == 2
MaxToolFailures == 2

\* return { content: [...] } with one of the handler's texts.
Return(r, text) == [r EXCEPT !.pc = "returned", !.result = text]

\* for (const docFile of docFiles), from the k-th file on; after the last
\* file the handler returns "Successfully indexed ...".
ForEachFile(r, k) ==
    IF k <= Len(r.docFiles)
    THEN [r EXCEPT !.pc = "file", !.f = k, !.c = 1,
                   !.chunks = chunkMarkdownContent(r.docFiles[k].content, r.docFiles[k].path)]
    ELSE Return(r, "success")

\* The handler with the deletion ahead of the check for an empty file list.
AfterFetchClearFirst(r, files) ==
    LET fetched == [r EXCEPT !.docFiles = files,
                             !.fetched = IF Len(files) = 0 THEN "notFound" ELSE "files"]
    IN  IF r.force THEN [fetched EXCEPT !.pc = "clear"]
        ELSE IF Len(files) = 0 THEN Return(fetched, "noDocs")
        ELSE ForEachFile(fetched, 1)

\* if (docFiles.length === 0) return "No markdown documentation found";
\* if (force) deleteRepo; then the loop over the files.
AfterFetch(r, files) ==
    LET fetched == [r EXCEPT !.docFiles = files,
                             !.fetched = IF Len(files) = 0 THEN "notFound" ELSE "files"]
    IN  IF Len(files) = 0 THEN Return(fetched, "noDocs")
        ELSE IF r.force THEN [fetched EXCEPT !.pc = "clear"]
        ELSE ForEachFile(fetched, 1)

\* The per-file catch: the rest of the file is left out, processedFiles is
\* not counted up.
FileCaught(r) == ForEachFile(r, r.f + 1)

ToolDoc ==
    IndexedChunk(req.repo, req.docFiles[req.f], req.chunks[req.c],
                 ProviderEmbedding(req.chunks[req.c].content))

\* A request arrives.
ToolCall(repo, force) ==
    /\ req.pc \in {"idle", "returned"}
    /\ req.n < MaxRequests
    /\ req' = [NoRequest EXCEPT !.pc = "check", !.repo = repo, !.force = force,
                                !.before = db, !.n = req.n + 1]
    /\ UNCHANGED <<chunkVars, storeVars, indexVars, serverVars>>

\* if (!force) { existingDocs = getDocumentsByRepo(...); if (length > 0) return }
ToolCheckIndexed ==
    /\ req.pc = "check"
    /\ \E existingDocs \in getDocumentsByRepo(db, req.repo) :
          req' = IF ~req.force /\ Len(existingDocs) > 0
                 THEN Return(req, "alreadyIndexed")
                 ELSE [req EXCEPT !.pc = "fetch"]
    /\ UNCHANGED <<chunkVars, storeVars, indexVars, serverVars>>

\* getDocumentationFiles returns.
ToolFetch ==
    /\ req.pc = "fetch"
    /\ req' = AfterFetch(req, getDocumentationFiles(host, req.repo, now, {}))
    /\ UNCHANGED <<chunkVars, storeVars, indexVars, serverVars>>

\* getDocumentationFiles throws (any error but 404): the outer catch
\* returns "Error indexing repository ...".
ToolFetchFails ==
    /\ req.pc = "fetch"
    /\ hist.callsFailed < MaxToolFailures
    /\ req' = Return([req EXCEPT !.fetched = "threw"], "error")
    /\ hist' = [hist EXCEPT !.callsFailed = @ + 1]
    /\ UNCHANGED <<host, now, pass, chunkVars, storeVars, serverVars>>

\* if (force) await vectorStore.deleteRepo(repoFullName)
ToolClear ==
    /\ req.pc = "clear"
    /\ db' = deleteRepo(db, req.repo)
    /\ req' = ForEachFile(req, 1)
    /\ UNCHANGED <<call, ret, failures, latest, chunkVars, indexVars, serverVars>>

\* deleteRepo throws (the store is unavailable): the outer catch returns
\* "Error indexing repository ...".
ToolClearFails ==
    /\ req.pc = "clear"
    /\ hist.callsFailed < MaxToolFailures
    /\ req' = Return([req EXCEPT !.writesFailed = @ + 1], "error")
    /\ hist' = [hist EXCEPT !.callsFailed = @ + 1]
    /\ UNCHANGED <<host, now, pass, chunkVars, storeVars, serverVars>>

\* generateEmbedding answers and addDocument stores the chunk.
ToolEmbeddingArrives ==
    /\ req.pc = "file"
    /\ db' = addDocument(db, ToolDoc)
    /\ LET counted == [req EXCEPT !.totalChunks = @ + 1]
       IN  req' = IF req.c < Len(req.chunks)
                  THEN [counted EXCEPT !.c = @ + 1]
                  ELSE ForEachFile([counted EXCEPT !.processedFiles = @ + 1], req.f + 1)
    /\ UNCHANGED <<call, ret, failures, latest, chunkVars, indexVars, serverVars>>

\* generateEmbedding throws: caught per file.
ToolEmbeddingFails ==
    /\ req.pc = "file"
    /\ hist.callsFailed < MaxToolFailures
    /\ req' = FileCaught(req)
    /\ hist' = [hist EXCEPT !.callsFailed = @ + 1]
    /\ UNCHANGED <<host, now, pass, chunkVars, storeVars, serverVars>>

\* addDocument throws (the store is unavailable), before its first statement
\* or between the two: caught per file.
ToolWriteFails ==
    /\ req.pc = "file"
    /\ hist.callsFailed < MaxToolFailures
    /\ db' \in {db, InsertOrReplaceDocument(db, ToolDoc)}
    /\ req' = FileCaught([req EXCEPT !.writesFailed = @ + 1])
    /\ hist' = [hist EXCEPT !.callsFailed = @ + 1]
    /\ UNCHANGED <<host, now, pass, call, ret, failures, latest, chunkVars, serverVars>>

\* The docs folder of a repository is removed on the host.
RemoveDocs(repo) ==
    /\ req.pc = "returned"
    /\ host[repo].hasDocs
    /\ host' = [host EXCEPT ![repo].hasDocs = FALSE]
    /\ UNCHANGED <<now, pass, hist, req, chunkVars, storeVars, serverVars>>

ToolInit == ChunkerIdle /\ StoreStart /\ IndexerIdle /\ ToolIdle /\ ServerIdle /\ host \in InitialHosts

ToolNext ==
    \/ \E repo \in Repos, force \in BOOLEAN : ToolCall(repo, force)
    \/ ToolCheckIndexed
    \/ ToolFetch
    \/ ToolFetchFails
    \/ ToolClear
    \/ ToolClearFails
    \/ ToolEmbeddingArrives
    \/ ToolEmbeddingFails
    \/ ToolWriteFails
    \/ \E repo \in Repos : RemoveDocs(repo)

SpecTool == ToolInit /\ [][ToolNext]_vars

(***************************************************************************)
(* Properties                                                              *)
(***************************************************************************)
\* A chunk as its caller handed it in: without the id the store assigned.
WithoutId(chunk) ==
    [repo      |-> chunk.repo,
     filePath  |-> chunk.filePath,
     content   |-> chunk.content,
     embedding |-> chunk.embedding,
     metadata  |-> chunk.metadata]

JoinedFor(t) == {j \in JoinRows(db) : TripleOf(j.d) = t}

\* C1: after any sequence of addDocument and deleteRepo calls the store holds
\* at most one chunk per (repo, filePath, content) triple, and that chunk
\* carries the embedding and metadata of the most recent upsert of the
\* triple (none if the repository was deleted since).
C1_IdempotentUpsert ==
    \A t \in Triples :
        /\ Cardinality({r \in db.documents : TripleOf(r) = t}) <= 1
        /\ Cardinality(JoinedFor(t)) <= 1
        /\ {WithoutId(RowToChunk(j)) : j \in JoinedFor(t)} = latest[t]
        /\ \A j \in JoinedFor(t) : \A doc \in latest[t] :
              /\ j.d.last_updated = doc.metadata.lastUpdated
              /\ j.d.commit_hash = doc.metadata.commitHash

\* C1 witness: an upsert has just replaced a row of the same triple that
\* held another embedding, and one row with the new embedding is left.
C1_Witness ==
    /\ ret.op = "addDocument"
    /\ \E j \in JoinRows(db) :
          /\ j.d.id = ret.value
          /\ ret.replaced # {}
          /\ j.e.embedding \notin ret.replaced
          /\ Cardinality(JoinedFor(TripleOf(j.d))) = 1

SameDimension(queryEmbedding) ==
    \A e \in db.embeddings : Len(e.embedding) = Len(queryEmbedding)

MinOf(a, b) == IF a < b THEN a ELSE b

\* C2: searchSimilar returns the topK candidates of highest similarity among
\* all stored chunks (of the filter's repositories when a non-empty filter
\* is given), and all candidates when there are fewer than topK.  Stated
\* for stores whose vectors all have the query's length.
C2_TopKOverAllChunks ==
    (ret.op = "searchSimilar" /\ SameDimension(ret.queryEmbedding)) =>
        LET candidates == Candidates(db, ret.repoFilter)
            returned   == {ret.value[n].document.id : n \in 1..Len(ret.value)}
        IN  /\ Len(ret.value) = MinOf(ret.limit, Cardinality(candidates))
            /\ \A n \in 1..Len(ret.value) : \A j \in candidates :
                  j.d.id \notin returned =>
                      ~SimGreater(cosineSimilarity(ret.queryEmbedding, FromBlob(j.e.embedding)),
                                  ret.value[n].similarity)

\* C3: every chunk chunkMarkdownContent produces has content of at most
\* 1500 characters.
C3_ChunkSizeBound ==
    \A k \in 1..Len(acc.chunks) : StrLen(acc.chunks[k].content) <= MaxChunkSize

\* C4: no chunk chunkMarkdownContent returns has content that is empty
\* after trimming.
C4_NonEmptyChunks ==
    cpc = "done" => \A k \in 1..Len(acc.chunks) : Trim(acc.chunks[k].content) # EmptyStr

\* The repository the gate has just decided on, and its stats entry.
GatedRepo == IF pass.gate = "skip" THEN pass.repos[pass.r - 1] ELSE pass.repos[pass.r]

GatedStats == FindStats(getRepoStats(db), GatedRepo.fullName)

NeedsReindex(existingStats, sourceLastUpdated) ==
    \/ existingStats = {}
    \/ \A s \in existingStats : DateValue(s.lastUpdated) < DateValue(sourceLastUpdated)

\* C5: the freshness gate decides to re-index a repository iff the store
\* has no stats entry for it or the stored most recent lastUpdated is
\* strictly before the repository's updatedAt; equal or later stored
\* timestamps yield skip.
C5_FreshnessGate ==
    /\ (pass.pc = "repo" /\ pass.gate = "skip") =>
            ~NeedsReindex(GatedStats, GatedRepo.updatedAt)
    /\ (pass.pc = "embed" /\ pass.gate = "reindex") =>
            NeedsReindex(GatedStats, GatedRepo.updatedAt)

\* C5 witness: the gate has just skipped a repository whose stored most
\* recent lastUpdated equals its updatedAt.
C5_Witness ==
    /\ pass.pc = "repo" /\ pass.gate = "skip"
    /\ \E s \in GatedStats : DateValue(s.lastUpdated) = DateValue(GatedRepo.updatedAt)

\* C6: once a pass has completely indexed a repository, no later pass
\* requests an embedding (or writes to the store) for it while neither the
\* repository nor its documents have changed.
C6_UnchangedRepoSkipped ==
    pass.pc = "embed" => CurrentRepo.fullName \notin hist.complete

HasChunksOf(repo, filePath) ==
    \E r \in db.documents : r.repo = repo /\ r.file_path = filePath

\* C7: when a pass in which no call failed has ended, every repository whose
\* indexing an earlier pass had left interrupted holds chunks of every one
\* of its documents.
C7_InterruptedRepoCompleted ==
    (pass.pc = "done" /\ ~pass.failed) =>
        \A repo \in hist.interrupted :
            \A k \in 1..Len(host[repo].files) : HasChunksOf(repo, host[repo].files[k].path)

\* C8: whenever no call is running, also after an addDocument that ended
\* between its two statements, every document row has exactly one embedding
\* row, every embedding row has its document row, and getRepoStats counts
\* for each repository as many chunks as getDocumentsByRepo lists.
C8_RowsPaired ==
    call.op = "idle" =>
        /\ \A r \in db.documents :
              Cardinality({e \in db.embeddings : e.document_id = r.id}) = 1
        /\ \A e \in db.embeddings : \E r \in db.documents : r.id = e.document_id
        /\ \A s \in {getRepoStats(db)[n] : n \in 1..Len(getRepoStats(db))} :
              \A listed \in getDocumentsByRepo(db, s.repo) : s.docCount = Len(listed)

\* C9: no embedding is stored whose length differs from that of the vectors
\* already stored, and no stored vector is scored against a query of
\* another length.
C9_DimensionChecked ==
    /\ \A e1 \in db.embeddings : \A e2 \in db.embeddings :
          Len(e1.embedding) = Len(e2.embedding)
    /\ ret.op = "searchSimilar" =>
          \A n \in 1..Len(ret.value) :
              Len(ret.value[n].document.embedding) = Len(ret.queryEmbedding)

\* C10: the id of a stored (repo, filePath, content) triple does not change
\* for as long as the triple is stored; an upsert of a stored triple keeps
\* its id.
C10_StableId ==
    [][\A t \in Triples :
          \A r1 \in {r \in db.documents : TripleOf(r) = t} :
              \A r2 \in {r \in db'.documents : TripleOf(r) = t} : r1.id = r2.id]_vars

\* C11: no stored chunk has content that is empty after trimming (an upsert
\* of such a chunk leaves the store unchanged).
C11_NoBlankChunkStored ==
    \A r \in db.documents : Trim(r.content) # EmptyStr

\* C12: deleteRepo(repo) removes exactly the chunks of repo and their
\* embeddings: afterwards getDocumentsByRepo(repo) is empty and getRepoStats
\* has no entry for repo, every other repository's chunks are as before,
\* and with no chunk of repo stored nothing changes.
C12_DeleteRepoExact ==
    [][\A repo \in Repos :
          DeleteRepo(repo) =>
              /\ db'.documents = {r \in db.documents : r.repo # repo}
              /\ db'.embeddings =
                    {e \in db.embeddings : \E r \in db'.documents : r.id = e.document_id}
              /\ getDocumentsByRepo(db', repo) = {<< >>}
              /\ FindStats(getRepoStats(db'), repo) = {}
              /\ \A other \in Repos \ {repo} :
                    getDocumentsByRepo(db', other) = getDocumentsByRepo(db, other)]_vars

\* C12 witness: deleteRepo has just removed the chunks of one repository
\* while another repository has chunks stored.
C12_Witness ==
    /\ ret.op = "deleteRepo"
    /\ ret.removed > 0
    /\ \E r \in db.documents : r.repo # ret.repo
    /\ \A r \in db.documents : \E e \in db.embeddings : e.document_id = r.id

RepoIndex(name) == CHOOSE k \in 1..Len(RepoNames) : RepoNames[k] = name

\* C13: getRepoStats returns one entry per repository that has a stored
\* chunk, in ascending order of repository name, whose docCount is the
\* number of the repository's stored chunks and whose lastUpdated is the
\* latest lastUpdated among them.
C13_StatsExact ==
    LET stats == getRepoStats(db)
    IN  /\ {stats[n].repo : n \in 1..Len(stats)} = {r.repo : r \in db.documents}
        /\ \A n \in 1..Len(stats) : \A m \in 1..Len(stats) :
              n < m => RepoIndex(stats[n].repo) < RepoIndex(stats[m].repo)
        /\ \A n \in 1..Len(stats) :
              LET rows == {r \in db.documents : r.repo = stats[n].repo}
              IN  /\ stats[n].docCount = Cardinality(rows)
                  /\ \E r \in rows : r.last_updated = stats[n].lastUpdated
                  /\ \A r \in rows :
                        DateValue(r.last_updated) <= DateValue(stats[n].lastUpdated)

\* C14: getDocumentsByRepo(repo) returns exactly the chunks stored for repo,
\* newest lastUpdated first (lastUpdated non-increasing along the list).
C14_ListNewestFirst ==
    \A repo \in Repos : \A listed \in getDocumentsByRepo(db, repo) :
        /\ Len(listed) = Cardinality({j \in JoinRows(db) : j.d.repo = repo})
        /\ {listed[n] : n \in 1..Len(listed)} =
              {RowToChunk(j) : j \in {x \in JoinRows(db) : x.d.repo = repo}}
        /\ \A n \in 1..Len(listed) - 1 :
              DateValue(listed[n].metadata.lastUpdated)
                  >= DateValue(listed[n + 1].metadata.lastUpdated)

\* x >= y for two similarities; false when either is NaN.
SimAtLeast(x, y) == ~x.nan /\ ~y.nan /\ ~SimGreater(y, x)

\* C15: the sequence searchSimilar returns has at most topK entries and is
\* non-increasing in similarity.
C15_BoundedAndSorted ==
    ret.op = "searchSimilar" =>
        /\ Len(ret.value) <= ret.limit
        /\ \A n \in 1..Len(ret.value) - 1 :
              SimAtLeast(ret.value[n].similarity, ret.value[n + 1].similarity)

FilterApplies(repoFilter) == repoFilter.given /\ Len(repoFilter.repos) > 0

\* C16: with a non-empty repoFilter every returned chunk's repository is in
\* the filter; with the filter absent or empty the chunks of all
\* repositories are candidates (as many are returned as the limit and the
\* whole store allow).
C16_FilterRespected ==
    ret.op = "searchSimilar" =>
        IF FilterApplies(ret.repoFilter)
        THEN \A n \in 1..Len(ret.value) :
                InFilter(ret.value[n].document.repo, ret.repoFilter)
        ELSE Len(ret.value) = MinOf(ret.limit, Cardinality(JoinRows(db)))

\* C16 witness: a search filtered to a/b has returned a chunk while a chunk
\* of c/d is stored.
C16_Witness ==
    /\ ret.op = "searchSimilar"
    /\ FilterApplies(ret.repoFilter)
    /\ Len(ret.value) > 0
    /\ \E j \in JoinRows(db) : ~InFilter(j.d.repo, ret.repoFilter)

IsZeroVector(v) == SumSquares(v) = 0

\* C17: a pair in which the query or the stored vector has magnitude 0 gets
\* similarity exactly 0, and such candidates are returned like any other:
\* when the candidates are no more than the limit all of them are returned.
C17_ZeroMagnitude ==
    ret.op = "searchSimilar" =>
        /\ \A n \in 1..Len(ret.value) :
              (IsZeroVector(ret.queryEmbedding)
                  \/ IsZeroVector(ret.value[n].document.embedding))
                  => SimIsZero(ret.value[n].similarity)
        /\ Cardinality(Candidates(db, ret.repoFilter)) <= ret.limit =>
              {ret.value[n].document.id : n \in 1..Len(ret.value)}
                  = {j.d.id : j \in Candidates(db, ret.repoFilter)}

\* C17 witness: a search with a query of non-zero magnitude has returned a
\* stored chunk whose vector has magnitude 0, with similarity 0.
C17_Witness ==
    /\ ret.op = "searchSimilar"
    /\ ~IsZeroVector(ret.queryEmbedding)
    /\ \E n \in 1..Len(ret.value) :
          /\ IsZeroVector(ret.value[n].document.embedding)
          /\ SimIsZero(ret.value[n].similarity)

\* C18: an index_repo_docs request in which a store write threw does not
\* return the success result.
C18_WriteFailurePropagated ==
    (req.pc = "returned" /\ req.writesFailed > 0) => req.result # "success"

\* C20: for a repository without docs folder getDocumentationFiles returns
\* the empty list, and an index_repo_docs request that got this answer has
\* returned "no documentation found" with the database as it was when the
\* request arrived, with force = true too.
C20_MissingDocsFolder ==
    /\ \A repo \in Repos :
          ~host[repo].hasDocs => getDocumentationFiles(host, repo, now, {}) = << >>
    /\ req.fetched = "notFound" =>
          /\ req.pc = "returned"
          /\ req.result = "noDocs"
          /\ db = req.before

\* C20 witness: a request with force = true for a repository that has
\* chunks stored got the 404 answer.
C20_Witness ==
    /\ req.fetched = "notFound"
    /\ req.force
    /\ \E r \in db.documents : r.repo = req.repo

PassRunning == pass.pc \in {"repo", "gate", "embed"}

\* C19: a running pass goes through the listed repositories one after the
\* other and reaches "Auto-indexing completed" with every listed repository
\* attempted, whichever of them failed.
C19_PassGoesOn ==
    /\ [][(PassRunning /\ PassRunning') => pass'.r \in {pass.r, pass.r + 1}]_vars
    /\ PassRunning ~> (pass.pc = "done" /\ pass.r = Len(pass.repos) + 1)

\* C19 witness: a pass is completed in which the first repository failed
\* midway and the second one was indexed after it.
C19_Witness ==
    /\ pass.pc = "done"
    /\ hist.passes = 1
    /\ "a/b" \in hist.interrupted
    /\ \E r \in db.documents : r.repo = "c/d"

\* C25: an index_repo_docs request with force = false for a repository that
\* has a listed chunk returns "already indexed" at its first step, and a
\* request that returned so has fetched nothing, counted no chunk, had no
\* write fail and left the database as it was when the request arrived.
C25_AlreadyIndexedFrame ==
    /\ [][(ToolCheckIndexed /\ ~req.force /\ \E j \in JoinRows(db) : j.d.repo = req.repo)
            => (req'.pc = "returned" /\ req'.result = "alreadyIndexed" /\ db' = db)]_vars
    /\ [](req.result = "alreadyIndexed" =>
            /\ req.pc = "returned"
            /\ ~req.force
            /\ req.fetched = "no"
            /\ req.totalChunks = 0
            /\ req.writesFailed = 0
            /\ db = req.before)

\* C25 witness: the second request, for a repository the first one indexed,
\* returned "already indexed".
C25_Witness ==
    /\ req.pc = "returned"
    /\ req.result = "alreadyIndexed"
    /\ req.n = 2
    /\ \E j \in JoinRows(db) : j.d.repo = req.repo

\* An index_repo_docs request with force = true went through the clear and
\* returned with no file processed to its end.
EveryFileFailed ==
    /\ req.pc = "returned"
    /\ req.force
    /\ req.result = "success"
    /\ req.processedFiles = 0

ChunksOf(repo) == {j \in JoinRows(db) : j.d.repo = repo}

\* The clear comes after a fetch that returned at least one file and before
\* the first embedding or upsert of the request.
ClearsAfterFetch ==
    req.pc = "clear" =>
        /\ req.force
        /\ req.fetched = "files"
        /\ Len(req.docFiles) >= 1
        /\ req.totalChunks = 0
        /\ req.writesFailed = 0
        /\ db = req.before

\* C30, as claimed: with force = true the collection is cleared after the
\* fetch returned at least one file and before the first embedding or
\* upsert, and when every file then fails the collection is left with zero
\* chunks.
C30_ZeroChunksLeft ==
    /\ ClearsAfterFetch
    /\ EveryFileFailed => ChunksOf(req.repo) = {}

\* C30, amended: the clear comes after the fetch and before the first
\* embedding or upsert, and it is not rolled back: from the clear on no row
\* of the collection is one that was there when the request arrived, so
\* when every file fails the collection holds only what the request stored
\* before a file's failure, and no chunk if no upsert succeeded.
C30_ClearNotRolledBack ==
    /\ ClearsAfterFetch
    /\ (req.force /\ (req.pc = "file" \/ (req.pc = "returned" /\ req.result = "success"))) =>
          \A r \in db.documents : r.repo = req.repo => r.id > LastInsertRowid(req.before)
    /\ EveryFileFailed => Cardinality(ChunksOf(req.repo)) <= req.totalChunks

\* C30 witness: the collection held chunks when the request arrived, every
\* file failed, one of them after its first chunk was stored.
C30_Witness ==
    /\ EveryFileFailed
    /\ \E r \in req.before.documents : r.repo = req.repo
    /\ req.totalChunks = 1
    /\ Cardinality(ChunksOf(req.repo)) = 1

\* The (repo, filePath, content) triples of the rows of the documents table.
StoredTriples(d) == {TripleOf(r) : r \in d.documents}

\* The triples of the chunks searchSimilar and getDocumentsByRepo can return.
SearchableTriples(d) == {TripleOf(j.d) : j \in JoinRows(d)}

\* C29: no step of an auto-index pass removes a chunk: the stored triples
\* only grow or stay, and every chunk that was searchable stays searchable,
\* the chunks of a document's old content included.
C29_PassNeverRemoves ==
    [][/\ StoredTriples(db) \subseteq StoredTriples(db')
       /\ SearchableTriples(db) \subseteq SearchableTriples(db')]_vars

TimerRunning == timer.pc \in {"repo", "gate", "embed"}

\* C27: auto-index passes never overlap: the call the interval timer
\* started and an earlier autoIndexRepositories call are never both
\* between their start and their end.
C27_PassesNeverOverlap == ~(PassRunning /\ TimerRunning)

\* The index of the last run of character ch in s, 0 if there is none.
LastIndexOf(s, ch) ==
    IF \E n \in 1..Len(s) : s[n].c = ch
    THEN CHOOSE n \in 1..Len(s) : s[n].c = ch /\ \A m \in (n + 1)..Len(s) : s[m].c # ch
    ELSE 0

\* The last path segment.
LastSegment(p) == SubSeq(p, LastIndexOf(p, "/") + 1, Len(p))

\* The name without its extension: without its last "." and what follows.
WithoutExtension(s) ==
    LET dot == LastIndexOf(s, ".")
    IN  IF dot = 0 THEN s
        ELSE Cat(SubSeq(s, 1, dot - 1), Rep(".", s[dot].n - 1))

RECURSIVE SeparatorsAsSpaces(_)
SeparatorsAsSpaces(s) ==
    IF s = << >> THEN EmptyStr
    ELSE Cat(Rep(IF Head(s).c \in {"-", "_"} THEN " " ELSE Head(s).c, Head(s).n),
             SeparatorsAsSpaces(Tail(s)))

\* The normalized file name: last path segment, extension stripped, '-' and
\* '_' replaced by spaces.
NormalizedFileName(p) == SeparatorsAsSpaces(WithoutExtension(LastSegment(p)))

\* C23: when the loop over the tokens and the final flush produced no chunk,
\* chunkMarkdownContent returns exactly one chunk: the first 1500 characters
\* of the raw input, titled with the normalized file name, without section;
\* when they produced a chunk the fallback adds nothing.
C23_FallbackChunk ==
    [][ReturnChunks =>
          IF acc.chunks = << >>
          THEN acc'.chunks = <<[content |-> Substring0(input.raw, 1500),
                                title   |-> NormalizedFileName(path),
                                section |-> Undefined]>>
          ELSE acc'.chunks = acc.chunks]_vars

\* The positions up to k of the headings of the given kind that carry text.
HeadingsUpTo(toks, k, topLevel) ==
    {n \in 1..k : /\ toks[n].name = "heading" /\ toks[n].suffix = "_open"
                  /\ (toks[n].tag = "h1") = topLevel
                  /\ n < Len(toks) /\ toks[n + 1].name = "inline"}

Latest(positions) == CHOOSE n \in positions : \A m \in positions : m <= n

\* The title in force after token k: the text of the most recent h1 heading,
\* or the normalized file name when there is none.
TitleInForce(toks, k, filePath) ==
    IF HeadingsUpTo(toks, k, TRUE) = {} THEN NormalizedFileName(filePath)
    ELSE toks[Latest(HeadingsUpTo(toks, k, TRUE)) + 1].content

\* The section in force after token k: the text of the most recent heading
\* below h1 that comes after the most recent h1; absent when there is none.
SectionInForce(toks, k) ==
    LET tops == HeadingsUpTo(toks, k, TRUE)
        subs == {n \in HeadingsUpTo(toks, k, FALSE) : tops # {} => n > Latest(tops)}
    IN  IF subs = {} THEN Undefined ELSE toks[Latest(subs) + 1].content

\* Scenario A: one h1 heading and one short paragraph.
ScenarioA == <<[kind |-> "h1", len |-> ShortLen], [kind |-> "para", len |-> ShortLen]>>

\* C22: a chunk pushed while token i is handled carries the title and the
\* section in force before token i, a chunk pushed after the loop those in
\* force at the end of the stream; and the document of Scenario A yields
\* exactly one chunk, titled with the heading text and holding the heading
\* line and the paragraph.
C22_TitleAndSection ==
    /\ [][Len(acc'.chunks) > Len(acc.chunks) =>
            LET pushed == acc'.chunks[Len(acc'.chunks)]
                k      == IF i <= Len(input.toks) THEN i - 1 ELSE Len(input.toks)
            IN  /\ Len(acc'.chunks) = Len(acc.chunks) + 1
                /\ pushed.title = TitleInForce(input.toks, k, path)
                /\ pushed.section = SectionInForce(input.toks, k)]_vars
    /\ []((cpc = "done" /\ input.toks = Parse(ScenarioA)) =>
            acc.chunks = <<[content |-> Cat(Lit(<<"#", " ">>),
                                        Cat(ElemText(ScenarioA[1]),
                                        Cat(Rep("\n", 2), ElemText(ScenarioA[2])))),
                            title   |-> ElemText(ScenarioA[1]),
                            section |-> Undefined]>>)

\* t occurs in s as a substring (both in run-length form).
Contains(s, t) ==
    \/ t = << >>
    \/ \E k \in 1..Len(s) :
          /\ k + Len(t) - 1 <= Len(s)
          /\ \A m \in 1..Len(t) :
                /\ s[k + m - 1].c = t[m].c
                /\ IF m = 1 \/ m = Len(t) THEN s[k + m - 1].n >= t[m].n
                                          ELSE s[k + m - 1].n = t[m].n

\* The raw text of a code token inside a fenced block marker.
Fenced(text) ==
    Cat(Rep(BackTick, 3), Cat(Rep("\n", 1), Cat(text, Cat(Rep("\n", 1), Rep(BackTick, 3)))))

\* C24: the raw text of every code block of the token stream, indented
\* (code_block) or fenced (fence), is found inside a fenced block marker in
\* the content of one of the returned chunks.
C24_CodeBlocksKept ==
    cpc = "done" =>
        \A n \in 1..Len(input.toks) :
            input.toks[n].name \in {"code_block", "fence"} =>
                \E k \in 1..Len(acc.chunks) :
                    Contains(acc.chunks[k].content, Fenced(input.toks[n].content))

RECURSIVE CountChar(_, _)
\* The number of characters ch in s.
CountChar(s, ch) ==
    IF s = << >> THEN 0
    ELSE (IF Head(s).c = ch THEN Head(s).n ELSE 0) + CountChar(Tail(s), ch)

RECURSIVE SumOver(_, _)
SumOver(f, S) ==
    IF S = {} THEN 0
    ELSE LET x == CHOOSE y \in S : TRUE IN f[x] + SumOver(f, S \ {x})

\* The inline tokens of the paragraphs (a list item's or a block quote's
\* text is the paragraph nested in it).
ParagraphInlines(toks) ==
    {n \in 2..Len(toks) : toks[n].name = "inline" /\ toks[n - 1].name = "paragraph"}

\* C26: in a token stream of headings, paragraphs, list items and block
\* quotes, the inline text of every paragraph, nested or not, is in the
\* returned chunks exactly once: they hold as many body characters as the
\* paragraphs' inline tokens do.
C26_InlineTextOnce ==
    (/\ cpc = "done"
     /\ \A n \in 1..Len(input.toks) : input.toks[n].name \notin {"code_block", "fence"}) =>
        SumOver([k \in 1..Len(acc.chunks) |-> CountChar(acc.chunks[k].content, "x")],
                1..Len(acc.chunks))
        = SumOver([n \in ParagraphInlines(input.toks) |-> StrLen(input.toks[n].content)],
                  ParagraphInlines(input.toks))

\* The request of a proactive tool has returned its response.
Advised ==
    /\ ask.pc = "returned"
    /\ ask.result = "ok"
    /\ ask.tool \in {"analyze_feature_impact", "check_breaking_changes"}

\* C21: with ALERT_THRESHOLD not configured, the proactive tools keep a
\* search result (the first one found of each document id) as a dependency
\* iff its similarity is >= 0.75.
C21_DefaultThreshold ==
    (Advised /\ ask.alertEnv = Unset) =>
        LET found == UniqueById(ask.all)
        IN  \A n \in 1..Len(found) :
                (\E m \in 1..Len(ask.unique) : ask.unique[m] = found[n])
                    <=> AtLeastThreshold(found[n].similarity, 75)

\* C28: the list a multi-query tool returns holds each stored chunk, taken
\* as (repo, filePath, content), at most once, also when the chunk was
\* upserted again between two of the tool's searches.
C28_ChunkListedOnce ==
    (ask.pc = "returned" /\ ask.result = "ok") =>
        \A m \in 1..Len(ask.unique) : \A n \in 1..Len(ask.unique) :
            DocTriple(ask.unique[m].document) = DocTriple(ask.unique[n].document) => m = n

=============================================================================
